---------------------------- MODULE Spec2Model ----------------------------
(***************************************************************************)
(* A model of the Lumina video gallery: the Player component's control     *)
(* state, the IndexedDB store wrapper, the title-cleanup service, the      *)
(* admin upload workflow and the App shell.                                *)
(*                                                                         *)
(* Numbers are scaled to integers: a volume is counted in slider steps of  *)
(* 0.05 (0..20).  Strings that the code transforms (file names, titles)    *)
(* are sequences of one-character strings.                                 *)
(***************************************************************************)
EXTENDS Integers, Sequences, FiniteSets, TLC

(* ------------------------------ bounds -------------------------------- *)

\* Number of timer ids the model hands out for window.setTimeout.
MaxTimers == 2

\* Number of video ids (uuid values) the model uses.
MaxIds == 3

\* Largest creation timestamp (Date.now()) the model uses.
MaxClock == 2

\* Number of handleUpload calls in a behaviour.
MaxUploads == 1

\* Number of generateCleanTitle calls, and of handleDeleteVideo calls, that are
\* in flight together.
MaxInFlight == 1

\* Longest file name the title cleanup is applied to.
MaxNameLen == 4

\* Longest list of summaries the grouping is applied to.
MaxListLen == 3

\* Longest video, in seconds.
MaxTime == 2

(* ------------------------- program constants -------------------------- *)

\* The volume slider: min 0, max 1, step 0.05, i.e. steps 0..20.
VolumeMax == 20

VolumeSteps == 0..VolumeMax

TimerIds == 1..MaxTimers

\* The seek bar's max while the duration state is 0: max={duration || 100}.
SeekFallbackMax == 100

\* useState(1) of playbackRate, and the element's defaultPlaybackRate: 1x, in
\* halves.
DefaultRate == 2

\* The speed menu: [2.5, 2, 1.5, 1, 0.5], in halves.
RateMenu == {5, 4, 3, 2, 1}

(* ------------------------------- state -------------------------------- *)

VARIABLES
    \* Player: React state
    isPlaying, volume, isMuted, showControls, showSpeedMenu,
    \* Player: refs
    prevVolumeRef, controlsTimeoutRef,
    \* Player: the <video> element and the window's pending timeouts
    elVolume, elMuted, elPaused, autoPlayPending, timers,
    \* Player: React state of the seek bar and the fullscreen button, the
    \* element's playback position and duration (0 while it has no metadata)
    \* and whether the document has a fullscreen element
    progress, duration, isFullscreen, elCurrentTime, elDuration, fullscreenElement,
    \* Player: React state of the speed menu's choice and the element's
    \* playbackRate, both in halves (1 is 0.5x, 2 is 1x, ... 5 is 2.5x)
    playbackRate, elPlaybackRate,
    \* history: the last operation that ran and whether the slider was ever used
    lastOp, volumeSet,
    \* the IndexedDB object store 'videos' (a set of records, keyed by id) and,
    \* as history, the ids deleted and not added again
    db, deletedIds,
    \* services/gemini.ts: whether the module-level client `ai` was created
    ai,
    \* argument and result of a function applied on its own
    fnInput, fnOutput,
    \* AdminPanel: React state, the file input's value, and the calls of
    \* generateCleanTitle and handleUpload that have not settled
    file, title, category, isProcessing, error, fileInputValue,
    suggestions, uploads, uploadCount,
    \* history: the operations the AdminPanel's last step called
    issued,
    \* whether the Button component (not among the sources) ignores clicks
    \* while its isLoading prop is set
    buttonLocks,
    \* Date.now()
    clock,
    \* App: React state, and the calls of loadVideos and handleDeleteVideo
    \* that have not settled
    videos, isLoading, isAdminOpen, passwordInput, showPasswordPrompt,
    isAuthenticated, loads, deletes,
    \* App: the view state, the calls of handleVideoSelect that have not
    \* settled and their number so far; the mounted Player's videoUrl and the
    \* object URLs created and not revoked
    viewState, selectedVideo, selects, selectCount, videoUrl, urls,
    \* App: the text of the search input
    searchQuery,
    \* the lists that getAllVideos calls of loadVideos have read from the
    \* store and not yet delivered
    snapshots,
    \* AdminPanel.generateThumbnail, one call: its file (NoFile while none is
    \* made), the promise it returned, whether its object URL is created and
    \* not revoked, whether its timeout is set and neither cleared nor fired,
    \* the detached video element's duration and currentTime, and (history)
    \* the events that have occurred
    thumbnailFile, thumbnailPromise, objectUrlLive, timeoutArmed,
    videoDuration, videoCurrentTime, thumbnailEvents

mediaVars == <<progress, duration, isFullscreen, elCurrentTime, elDuration,
               fullscreenElement>>

rateVars == <<playbackRate, elPlaybackRate>>

playerVars == <<isPlaying, volume, isMuted, showControls, showSpeedMenu,
                prevVolumeRef, controlsTimeoutRef,
                elVolume, elMuted, elPaused, autoPlayPending, timers, volumeSet,
                mediaVars, rateVars>>

storeVars == <<db, deletedIds>>

fnVars == <<fnInput, fnOutput>>

thumbVars == <<thumbnailFile, thumbnailPromise, objectUrlLive, timeoutArmed,
               videoDuration, videoCurrentTime, thumbnailEvents>>

adminVars == <<file, title, category, isProcessing, error, fileInputValue,
               suggestions, uploads, uploadCount, issued, buttonLocks, clock>>

viewVars == <<viewState, selectedVideo, selects, selectCount, videoUrl, urls>>

appVars == <<videos, isLoading, isAdminOpen, passwordInput, showPasswordPrompt,
             isAuthenticated, loads, deletes, viewVars, searchQuery, snapshots>>

vars == <<playerVars, storeVars, ai, fnVars, thumbVars, adminVars, appVars, lastOp>>

notPlayerVars == <<storeVars, ai, fnVars, thumbVars, adminVars, appVars>>

notStoreVars == <<playerVars, ai, fnVars, thumbVars, adminVars, appVars>>

notFnVars == <<playerVars, storeVars, ai, thumbVars, adminVars, appVars>>

OpR(name, arg, ok) == [op |-> name, arg |-> arg, ok |-> ok]

Op(name, arg) == OpR(name, arg, TRUE)

(* ------------------- initial state of AdminPanel and App --------------- *)

\* store.get(id) of a key that is not in the store: the value `undefined`,
\* written as a record that is no stored record (ids start at 1).
Undefined ==
    [id |-> 0, title |-> <<>>, category |-> "", blob |-> 0, thumbnailUrl |-> "",
     createdAt |-> 0, duration |-> 0]

\* selectedVideo === null; a selected video is the record fetched and the
\* number of the fetch, which tells its Blob object from those of other
\* fetches.
NoSelection == [video |-> Undefined, fetch |-> 0]

\* No file, no error message.
NoFile == 0

\* The promise of a generateThumbnail call that has not settled.
Pending == [state |-> "pending", url |-> "", duration |-> 0, by |-> ""]

\* No generateThumbnail call is being followed.
thumbnailIdle ==
    /\ thumbnailFile = NoFile /\ thumbnailPromise = Pending
    /\ objectUrlLive = FALSE /\ timeoutArmed = FALSE
    /\ videoDuration = 0 /\ videoCurrentTime = 0 /\ thumbnailEvents = <<>>

\* AdminPanel: useState initial values.
AdminInit ==
    /\ file = NoFile
    /\ title = <<>>
    /\ category = "Botany"
    /\ isProcessing = FALSE
    /\ error = FALSE
    /\ fileInputValue = NoFile
    /\ suggestions = {}
    /\ uploads = {}
    /\ uploadCount = 0
    /\ issued = <<>>
    /\ buttonLocks = TRUE
    /\ clock = 1

\* App: useState initial values, then the mount effect has called loadVideos.
AppInit ==
    /\ videos = <<>>
    /\ isLoading = TRUE
    /\ isAdminOpen = FALSE
    /\ passwordInput = ""
    /\ showPasswordPrompt = FALSE
    /\ isAuthenticated = FALSE
    /\ loads = 1
    /\ deletes = <<>>
    /\ viewState = "HOME"
    /\ selectedVideo = NoSelection
    /\ selects = {}
    /\ selectCount = 0
    /\ videoUrl = 0
    /\ urls = {}
    /\ searchQuery = <<>> /\ snapshots = {}

(* ------------------------------ Player -------------------------------- *)

\* useState/useRef initial values, then the mount effect (v.volume = volume).
PlayerInit ==
    /\ isPlaying = FALSE
    /\ volume = VolumeMax
    /\ isMuted = FALSE
    /\ showControls = TRUE
    /\ showSpeedMenu = FALSE
    /\ prevVolumeRef = VolumeMax
    /\ controlsTimeoutRef = 0
    /\ elVolume = VolumeMax
    /\ elMuted = FALSE
    /\ elPaused = TRUE
    /\ autoPlayPending = TRUE
    /\ timers = {}
    /\ volumeSet = FALSE
    /\ progress = 0
    /\ duration = 0
    /\ isFullscreen = FALSE
    /\ elCurrentTime = 0
    /\ elDuration = 0
    /\ fullscreenElement = FALSE
    /\ playbackRate = DefaultRate
    /\ elPlaybackRate = DefaultRate

\* window.setTimeout returns an id that no pending timeout has; the model
\* reuses the smallest id that is neither pending nor still held in the ref.
freeTimerIds == {i \in TimerIds : i # controlsTimeoutRef /\ \A t \in timers : t.id # i}

newTimerId == CHOOSE i \in freeTimerIds : \A j \in freeTimerIds : i <= j

\* window.clearTimeout(id): a no-op for an id that is not pending (a plausible
\* slip leaves the pending timeout alone).
clearTimeout_skipped(ts, id) == ts

clearTimeout(ts, id) == {t \in ts : t.id # id}

\* handleMouseMove: the timeout callback closes over this render's isPlaying.
handleMouseMove ==
    /\ freeTimerIds # {}
    /\ showControls' = TRUE
    /\ LET cleared == IF controlsTimeoutRef # 0
                      THEN clearTimeout(timers, controlsTimeoutRef)
                      ELSE timers
           id == newTimerId
       IN /\ timers' = cleared \cup {[id |-> id, playing |-> isPlaying]}
          /\ controlsTimeoutRef' = id
    /\ lastOp' = Op("handleMouseMove", 0)
    /\ UNCHANGED <<notPlayerVars, mediaVars, rateVars>>
    /\ UNCHANGED <<isPlaying, volume, isMuted, showSpeedMenu, prevVolumeRef,
                   elVolume, elMuted, elPaused, autoPlayPending, volumeSet>>

\* The value of isPlaying the timeout callback tests.
timeoutSeesPlaying(t) == t.playing

\* The 2-second timeout of handleMouseMove expires and its callback runs.
controlsTimeoutFire(t) ==
    /\ t \in timers
    /\ timers' = timers \ {t}
    /\ IF timeoutSeesPlaying(t)
       THEN showControls' = FALSE /\ showSpeedMenu' = FALSE
       ELSE UNCHANGED <<showControls, showSpeedMenu>>
    /\ lastOp' = Op("controlsTimeoutFire", t.id)
    /\ UNCHANGED <<notPlayerVars, mediaVars, rateVars>>
    /\ UNCHANGED <<isPlaying, volume, isMuted, prevVolumeRef, controlsTimeoutRef,
                   elVolume, elMuted, elPaused, autoPlayPending, volumeSet>>

\* The test of onMouseLeave: if (isPlaying) (a plausible slip hides the
\* controls whether playing or not).
leaveHides_always(playing) == TRUE

leaveHides(playing) == playing

\* onMouseLeave of the player container.
onMouseLeave ==
    /\ IF leaveHides(isPlaying)
       THEN showControls' = FALSE /\ showSpeedMenu' = FALSE
       ELSE UNCHANGED <<showControls, showSpeedMenu>>
    /\ lastOp' = Op("onMouseLeave", 0)
    /\ UNCHANGED <<notPlayerVars, mediaVars, rateVars>>
    /\ UNCHANGED <<isPlaying, volume, isMuted, prevVolumeRef, controlsTimeoutRef,
                   elVolume, elMuted, elPaused, autoPlayPending, timers, volumeSet>>

\* What togglePlay makes of showSpeedMenu (a plausible slip leaves the menu
\* as it is).
menuAfterTogglePlay_kept(open) == open

menuAfterTogglePlay(open) == FALSE

\* togglePlay: pause() when isPlaying, play() otherwise; the browser may
\* refuse play(), and the step records whether the element followed the call.
togglePlay(playOk) ==
    /\ showSpeedMenu' = menuAfterTogglePlay(showSpeedMenu)
    /\ elPaused' = IF isPlaying THEN TRUE ELSE ~playOk
    /\ isPlaying' = ~isPlaying
    /\ lastOp' = OpR("togglePlay", 0, isPlaying \/ playOk)
    /\ UNCHANGED <<notPlayerVars, mediaVars, rateVars>>
    /\ UNCHANGED <<volume, isMuted, showControls, prevVolumeRef, controlsTimeoutRef,
                   elVolume, elMuted, autoPlayPending, timers, volumeSet>>

\* The <video autoPlay> element starts (or the browser blocks it); onPlay
\* runs when it starts.
autoPlay(started) ==
    /\ autoPlayPending
    /\ autoPlayPending' = FALSE
    /\ IF started
       THEN elPaused' = FALSE /\ isPlaying' = TRUE
       ELSE UNCHANGED <<elPaused, isPlaying>>
    /\ lastOp' = Op("autoPlay", 0)
    /\ UNCHANGED <<notPlayerVars, mediaVars, rateVars>>
    /\ UNCHANGED <<volume, isMuted, showControls, showSpeedMenu, prevVolumeRef,
                   controlsTimeoutRef, elVolume, elMuted, timers, volumeSet>>

\* What the 'ended' listener makes of isPlaying: setIsPlaying(false) (a
\* plausible slip leaves the state as it is).
playingAfterEnded_kept(playing) == playing

playingAfterEnded(playing) == FALSE

\* The element reaches the end of the video and pauses itself; the 'ended'
\* listener runs.
onEnded ==
    /\ ~elPaused
    /\ elPaused' = TRUE
    /\ isPlaying' = playingAfterEnded(isPlaying)
    /\ lastOp' = Op("onEnded", 0)
    /\ UNCHANGED <<notPlayerVars, mediaVars, rateVars>>
    /\ UNCHANGED <<volume, isMuted, showControls, showSpeedMenu, prevVolumeRef,
                   controlsTimeoutRef, elVolume, elMuted, autoPlayPending, timers,
                   volumeSet>>

\* The speed button: setShowSpeedMenu(!showSpeedMenu).
speedMenuToggle ==
    /\ showSpeedMenu' = ~showSpeedMenu
    /\ lastOp' = Op("speedMenuToggle", 0)
    /\ UNCHANGED <<notPlayerVars, mediaVars, rateVars>>
    /\ UNCHANGED <<isPlaying, volume, isMuted, showControls, prevVolumeRef,
                   controlsTimeoutRef, elVolume, elMuted, elPaused, autoPlayPending,
                   timers, volumeSet>>

\* The volume and mute part of the player state, as the handlers below see it.
audioState == [volume |-> volume, isMuted |-> isMuted, prev |-> prevVolumeRef,
               elVolume |-> elVolume, elMuted |-> elMuted]

\* prevVolumeRef.current || 1
restoredVolume(prev) == IF prev = 0 THEN VolumeMax ELSE prev

\* What the mute branch stores in prevVolumeRef (a plausible slip stores the
\* volume after it was zeroed).
muteRemember_afterZeroing(vol) == 0

muteRemember(vol) == vol

\* videoRef.current.muted = false in the unmute branch (a plausible slip
\* leaves the element's flag as it is).
unmuteElement_forgotten(muted) == muted

unmuteElement(muted) == FALSE

\* toggleMute, as a function of the audio state.
toggleMuteState(s) ==
    IF s.isMuted
    THEN [volume |-> restoredVolume(s.prev), isMuted |-> FALSE, prev |-> s.prev,
          elVolume |-> restoredVolume(s.prev), elMuted |-> unmuteElement(s.elMuted)]
    ELSE [volume |-> 0, isMuted |-> TRUE, prev |-> muteRemember(s.volume),
          elVolume |-> 0, elMuted |-> TRUE]

\* The mute flag the slider handler sets (a plausible slip never mutes).
sliderMuted_never(v) == FALSE

sliderMuted(v) == v = 0

\* The volume slider's onChange, as a function of the audio state.
sliderState(s, v) ==
    [volume |-> v, isMuted |-> sliderMuted(v),
     prev |-> IF v = 0 THEN s.prev ELSE v,
     elVolume |-> v, elMuted |-> sliderMuted(v)]

setAudio(r) ==
    /\ volume' = r.volume
    /\ isMuted' = r.isMuted
    /\ prevVolumeRef' = r.prev
    /\ elVolume' = r.elVolume
    /\ elMuted' = r.elMuted

toggleMute ==
    /\ setAudio(toggleMuteState(audioState))
    /\ lastOp' = Op("toggleMute", 0)
    /\ UNCHANGED <<notPlayerVars, mediaVars, rateVars>>
    /\ UNCHANGED <<isPlaying, showControls, showSpeedMenu, controlsTimeoutRef,
                   elPaused, autoPlayPending, timers, volumeSet>>

volumeSliderOnChange(v) ==
    /\ setAudio(sliderState(audioState, v))
    /\ volumeSet' = TRUE
    /\ lastOp' = Op("volumeSliderOnChange", v)
    /\ UNCHANGED <<notPlayerVars, mediaVars, rateVars>>
    /\ UNCHANGED <<isPlaying, showControls, showSpeedMenu, controlsTimeoutRef,
                   elPaused, autoPlayPending, timers>>

PlayerNext ==
    \/ handleMouseMove
    \/ \E t \in timers : controlsTimeoutFire(t)
    \/ onMouseLeave
    \/ \E ok \in BOOLEAN : togglePlay(ok)
    \/ \E started \in BOOLEAN : autoPlay(started)
    \/ onEnded
    \/ speedMenuToggle
    \/ toggleMute
    \/ \E v \in VolumeSteps : volumeSliderOnChange(v)

PlayerSpecInit ==
    /\ PlayerInit /\ AdminInit /\ AppInit
    /\ db = {} /\ deletedIds = {}
    /\ ai = FALSE
    /\ thumbnailIdle
    /\ fnInput = <<>> /\ fnOutput = <<>>
    /\ lastOp = Op("init", 0)

SpecPlayer == PlayerSpecInit /\ [][PlayerNext]_vars

(* ------------------- Player: seek bar and fullscreen ------------------- *)

\* The player state other than the seek bar's and the fullscreen button's.
controlVars == <<isPlaying, volume, isMuted, showControls, showSpeedMenu,
                 prevVolumeRef, controlsTimeoutRef,
                 elVolume, elMuted, elPaused, autoPlayPending, timers, volumeSet>>

\* The element has its metadata: 'loadedmetadata' runs updateDuration.
updateDuration(d) ==
    /\ elDuration = 0
    /\ elDuration' = d
    /\ duration' = d
    /\ elCurrentTime' = IF elCurrentTime > d THEN d ELSE elCurrentTime
    /\ lastOp' = Op("updateDuration", d)
    /\ UNCHANGED <<progress, isFullscreen, fullscreenElement>>
    /\ UNCHANGED <<controlVars, rateVars, notPlayerVars>>

\* The element plays on by a second.
playbackAdvance ==
    /\ ~elPaused /\ elCurrentTime < elDuration
    /\ elCurrentTime' = elCurrentTime + 1
    /\ lastOp' = Op("playbackAdvance", 0)
    /\ UNCHANGED <<progress, duration, isFullscreen, elDuration, fullscreenElement>>
    /\ UNCHANGED <<controlVars, rateVars, notPlayerVars>>

\* 'timeupdate' runs updateTime: setProgress(v.currentTime).
updateTime ==
    /\ progress' = elCurrentTime
    /\ lastOp' = Op("updateTime", 0)
    /\ UNCHANGED <<duration, isFullscreen, elCurrentTime, elDuration, fullscreenElement>>
    /\ UNCHANGED <<controlVars, rateVars, notPlayerVars>>

\* The seek bar: min 0, max {duration || 100}.
seekMax == IF duration = 0 THEN SeekFallbackMax ELSE duration

SeekTargets == {t \in (0..MaxTime) \cup {SeekFallbackMax} : t <= seekMax}

\* The position the element takes when currentTime is assigned: the seek is
\* clamped to the end of the media; without metadata the value is kept as the
\* default playback start position.
seekPosition(t) == IF elDuration # 0 /\ t > elDuration THEN elDuration ELSE t

\* What handleSeek makes of the progress state (a plausible slip leaves it to
\* the next 'timeupdate').
progressAfterSeek_waits(t, old) == old

progressAfterSeek(t, old) == t

\* handleSeek
handleSeek(t) ==
    /\ t \in SeekTargets
    /\ elCurrentTime' = seekPosition(t)
    /\ progress' = progressAfterSeek(t, progress)
    /\ lastOp' = Op("handleSeek", t)
    /\ UNCHANGED <<duration, isFullscreen, elDuration, fullscreenElement>>
    /\ UNCHANGED <<controlVars, rateVars, notPlayerVars>>

\* toggleFullscreen; the browser may refuse the request, whose promise the
\* code does not await.
toggleFullscreen(granted) ==
    /\ IF ~fullscreenElement
       THEN /\ fullscreenElement' = granted
            /\ isFullscreen' = TRUE
       ELSE /\ fullscreenElement' = FALSE
            /\ isFullscreen' = FALSE
    /\ lastOp' = OpR("toggleFullscreen", 0, fullscreenElement \/ granted)
    /\ UNCHANGED <<progress, duration, elCurrentTime, elDuration>>
    /\ UNCHANGED <<controlVars, rateVars, notPlayerVars>>

\* Fullscreen is left by a gesture of the browser (the Escape key).
fullscreenExit ==
    /\ fullscreenElement
    /\ fullscreenElement' = FALSE
    /\ lastOp' = Op("fullscreenExit", 0)
    /\ UNCHANGED <<progress, duration, isFullscreen, elCurrentTime, elDuration>>
    /\ UNCHANGED <<controlVars, rateVars, notPlayerVars>>

\* handleSpeedChange(rate), called by a button of the speed menu, which is
\* rendered while showSpeedMenu is set.
handleSpeedChange(rate) ==
    /\ showSpeedMenu
    /\ playbackRate' = rate
    /\ elPlaybackRate' = rate
    /\ showSpeedMenu' = FALSE
    /\ lastOp' = Op("handleSpeedChange", rate)
    /\ UNCHANGED <<mediaVars, notPlayerVars>>
    /\ UNCHANGED <<isPlaying, volume, isMuted, showControls, prevVolumeRef,
                   controlsTimeoutRef, elVolume, elMuted, elPaused, autoPlayPending,
                   timers, volumeSet>>

\* The video prop of the mounted Player is replaced (a handleVideoSelect call
\* settles while the Player is shown): useMemo makes a new videoUrl, React
\* sets it as the element's src, and the element runs its load algorithm,
\* which pauses it, rewinds it, forgets the duration, sets playbackRate to
\* defaultPlaybackRate and arms autoplay again.  The component is not
\* remounted: its state stays and its mount effect does not run again.
videoUrlChange ==
    /\ elPaused' = TRUE
    /\ autoPlayPending' = TRUE
    /\ elCurrentTime' = 0
    /\ elDuration' = 0
    /\ elPlaybackRate' = DefaultRate
    /\ lastOp' = Op("videoUrlChange", 0)
    /\ UNCHANGED <<progress, duration, isFullscreen, fullscreenElement, playbackRate>>
    /\ UNCHANGED <<isPlaying, volume, isMuted, showControls, showSpeedMenu,
                   prevVolumeRef, controlsTimeoutRef, elVolume, elMuted, timers,
                   volumeSet>>
    /\ UNCHANGED notPlayerVars

MediaNext ==
    \/ \E d \in 1..MaxTime : updateDuration(d)
    \/ playbackAdvance
    \/ updateTime
    \/ \E t \in SeekTargets : handleSeek(t)
    \/ \E granted \in BOOLEAN : toggleFullscreen(granted)
    \/ fullscreenExit
    \/ \E ok \in BOOLEAN : togglePlay(ok)
    \/ \E started \in BOOLEAN : autoPlay(started)
    \/ onEnded
    \/ speedMenuToggle
    \/ \E rate \in RateMenu : handleSpeedChange(rate)
    \/ videoUrlChange

SpecMedia == PlayerSpecInit /\ [][MediaNext]_vars

(* ------------------------ services/db.ts: store ------------------------ *)

\* types.ts: VideoCategory, in the order of CATEGORIES / categoriesOrder.
CATEGORIES == <<"Botany", "Zoology", "NCERT line by line", "Other">>

\* A record written before the category field existed has no category.
NoCategory == "<no category>"

VideoIds == 1..MaxIds

Timestamps == 0..MaxClock

keys(d) == {r.id : r \in d}

\* store.add(video): rejected (ConstraintError) when the key is in the store,
\* and it may fail for lack of quota (a plausible slip uses store.put, which
\* accepts a key that is in the store).
addRejected_put(d, video, quotaOk) == ~quotaOk

addRejected(d, video, quotaOk) == video.id \in keys(d) \/ ~quotaOk

saveVideoOp(d, video) == d \cup {video}

\* store.delete(id) (a plausible slip: the request leaves the store alone)
deleteVideoOp_keeps(d, id) == d

deleteVideoOp(d, id) == {r \in d : r.id # id}

\* getVideoById: store.get(id)
getVideoById(d, id) ==
    IF id \in keys(d) THEN CHOOSE r \in d : r.id = id ELSE Undefined

\* The summary getAllVideos pushes for a record: the blob is dropped and a
\* falsy category becomes 'Other'.
summaryOf(r) ==
    [id |-> r.id, title |-> r.title,
     category |-> IF r.category \in {NoCategory, ""} THEN "Other" ELSE r.category,
     thumbnailUrl |-> r.thumbnailUrl, createdAt |-> r.createdAt,
     duration |-> r.duration]

\* The 'createdAt' index read with direction 'prev': descending creation time,
\* records of one timestamp by descending primary key (a plausible slip reads
\* the index with the default direction 'next').
cursorBefore_next(a, b) ==
    \/ a.createdAt < b.createdAt
    \/ a.createdAt = b.createdAt /\ a.id < b.id

cursorBefore(a, b) ==
    \/ a.createdAt > b.createdAt
    \/ a.createdAt = b.createdAt /\ a.id > b.id

RECURSIVE cursorPrev(_)
cursorPrev(d) ==
    IF d = {} THEN <<>>
    ELSE LET first == CHOOSE r \in d : \A o \in d \ {r} : cursorBefore(r, o)
         IN <<first>> \o cursorPrev(d \ {first})

\* getAllVideos
getAllVideos(d) ==
    LET rows == cursorPrev(d) IN [i \in 1..Len(rows) |-> summaryOf(rows[i])]

listedIds(d) == {getAllVideos(d)[i].id : i \in 1..Len(getAllVideos(d))}

\* The records the store is called with when it is driven directly.
StoreTitles == {<<"a">>}

StoreInputs ==
    [id : VideoIds, title : StoreTitles, category : {"Botany", NoCategory},
     blob : {1}, thumbnailUrl : {""}, createdAt : Timestamps \ {0}, duration : {0}]

\* await saveVideo(video), called on the store directly.
saveVideo(video, quotaOk) ==
    /\ IF addRejected(db, video, quotaOk)
       THEN UNCHANGED <<db, deletedIds>>
       ELSE /\ db' = saveVideoOp(db, video)
            /\ deletedIds' = deletedIds \ {video.id}
    /\ lastOp' = OpR("saveVideo", video.id, ~addRejected(db, video, quotaOk))
    /\ UNCHANGED notStoreVars

\* await deleteVideo(id), called on the store directly; the request may fail.
deleteVideo(id, ok) ==
    /\ IF ok
       THEN /\ db' = deleteVideoOp(db, id)
            /\ deletedIds' = deletedIds \cup {id}
       ELSE UNCHANGED <<db, deletedIds>>
    /\ lastOp' = OpR("deleteVideo", id, ok)
    /\ UNCHANGED notStoreVars

StoreNext ==
    \/ \E video \in StoreInputs, quotaOk \in BOOLEAN : saveVideo(video, quotaOk)
    \/ \E id \in VideoIds, ok \in BOOLEAN : deleteVideo(id, ok)

\* The store as a session finds it: empty, or holding a record of an earlier
\* version of the application.
LegacyVideo ==
    [id |-> MaxIds, title |-> <<"a">>, category |-> NoCategory, blob |-> 1,
     thumbnailUrl |-> "", createdAt |-> 0, duration |-> 0]

StoreSpecInit ==
    /\ PlayerInit /\ AdminInit /\ AppInit
    /\ db \in {{}, {LegacyVideo}}
    /\ deletedIds = {}
    /\ ai = FALSE
    /\ thumbnailIdle
    /\ fnInput = <<>> /\ fnOutput = <<>>
    /\ lastOp = Op("init", 0)

SpecStore == StoreSpecInit /\ [][StoreNext]_vars

(* ------------------------ claims about the store ----------------------- *)

\* C4: after a successful deleteVideo(id), getAllVideos() lists no summary
\* with that id and getVideoById(id) is undefined, in every later state until
\* a record with that id is added again; the deletion changes no other record.
C4_DeletedStaysAbsent ==
    /\ [](\A id \in deletedIds :
            /\ getVideoById(db, id) = Undefined
            /\ id \notin listedIds(db))
    /\ [][(lastOp'.op = "deleteVideo" /\ lastOp'.ok) =>
            \A other \in VideoIds \ {lastOp'.arg} :
                getVideoById(db', other) = getVideoById(db, other)]_vars

\* C4 witness: a stored record was deleted while another record stays listed.
C4_Witness ==
    /\ lastOp = OpR("deleteVideo", 2, TRUE)
    /\ 2 \in deletedIds
    /\ listedIds(db) = {1, MaxIds}


(* --------------- services/gemini.ts: generateCleanTitle ---------------- *)

\* The characters of the file names the model uses.
NameChars == {"a", ".", "_", "-"}

RECURSIVE SeqsUpTo(_, _)
SeqsUpTo(S, n) ==
    IF n = 0 THEN {<<>>}
    ELSE LET shorter == SeqsUpTo(S, n - 1)
         IN shorter \cup {Append(q, c) : q \in {x \in shorter : Len(x) = n - 1}, c \in S}

FileNames == SeqsUpTo(NameChars, MaxNameLen) \ {<<>>}

\* /\.[^/.]+$/ matches at position p: a dot followed, up to the end of the
\* string, by one or more characters that are neither '/' nor '.'.
extensionAt(name, p) ==
    /\ name[p] = "."
    /\ p < Len(name)
    /\ \A k \in (p + 1)..Len(name) : name[k] \notin {"/", "."}

Min(S) == CHOOSE x \in S : \A y \in S : x <= y

\* filename.replace(/\.[^/.]+$/, ""), and a plausible slip: cutting at the
\* first dot (the pattern /\..*$/).
stripExtension_firstDot(name) ==
    LET dots == {p \in 1..Len(name) : name[p] = "."}
    IN IF dots = {} THEN name ELSE SubSeq(name, 1, Min(dots) - 1)

stripExtension(name) ==
    LET found == {p \in 1..Len(name) : extensionAt(name, p)}
    IN IF found = {} THEN name ELSE SubSeq(name, 1, Min(found) - 1)

\* .replace(/[_-]/g, " "), and a plausible slip: only '_' is replaced.
replaceSeparators_underscoreOnly(str) ==
    [i \in 1..Len(str) |-> IF str[i] = "_" THEN " " ELSE str[i]]

replaceSeparators(str) ==
    [i \in 1..Len(str) |-> IF str[i] \in {"_", "-"} THEN " " ELSE str[i]]

\* The fallback of generateCleanTitle.
fallbackTitle(filename) == replaceSeparators(stripExtension(filename))

\* String.prototype.trim, for strings whose only white space is ' '.
RECURSIVE trimStart(_)
trimStart(str) ==
    IF str # <<>> /\ Head(str) = " " THEN trimStart(Tail(str)) ELSE str

RECURSIVE trimEnd(_)
trimEnd(str) ==
    IF str # <<>> /\ str[Len(str)] = " "
    THEN trimEnd(SubSeq(str, 1, Len(str) - 1)) ELSE str

trim(str) == trimEnd(trimStart(str))

\* What ai.models.generateContent does: it answers with a text, answers with a
\* response that has no text, or throws.
ResponseTexts == {<<" ", "T", " ", "t", " ">>, <<>>}

ServiceOutcomes ==
    {[kind |-> "text", text |-> t] : t \in ResponseTexts}
        \cup {[kind |-> "noText", text |-> <<>>], [kind |-> "throws", text |-> <<>>]}

Resolved(v) == [status |-> "resolved", value |-> v]

Rejected == [status |-> "rejected", value |-> <<>>]

\* The try block: response.text.trim() throws a TypeError when text is
\* undefined.
tryGenerate(outcome) ==
    IF outcome.kind = "text"
    THEN [thrown |-> FALSE, value |-> trim(outcome.text)]
    ELSE [thrown |-> TRUE, value |-> <<>>]

\* generateCleanTitle(filename); `present` is the module's `ai` client.
generateCleanTitle(filename, present, outcome) ==
    IF ~present THEN Resolved(fallbackTitle(filename))
    ELSE LET t == tryGenerate(outcome)
         IN IF t.thrown THEN Resolved(fallbackTitle(filename)) ELSE Resolved(t.value)

\* A call of generateCleanTitle(fnInput) settles.
callGenerateCleanTitle(outcome) ==
    /\ fnOutput.status = "pending"
    /\ fnOutput' = [outcome |-> outcome.kind]
                       @@ generateCleanTitle(fnInput, ai, outcome)
    /\ lastOp' = Op("generateCleanTitle", 0)
    /\ UNCHANGED <<notFnVars, fnInput>>

TitleNext == \E outcome \in ServiceOutcomes : callGenerateCleanTitle(outcome)

TitleSpecInit ==
    /\ PlayerInit /\ AdminInit /\ AppInit
    /\ db = {} /\ deletedIds = {}
    /\ ai \in BOOLEAN
    /\ thumbnailIdle
    /\ fnInput \in FileNames
    /\ fnOutput = [outcome |-> "none", status |-> "pending", value |-> <<>>]
    /\ lastOp = Op("init", 0)

SpecTitle == TitleSpecInit /\ [][TitleNext]_vars

(* ------------------- App.tsx: categorizedVideos ------------------------ *)

\* The category values a summary can carry: the four of VideoCategory, and for
\* legacy data none, the empty string or a value that is no VideoCategory.
AnyCategory ==
    {CATEGORIES[i] : i \in 1..Len(CATEGORIES)} \cup {NoCategory, "", "Physics"}

\* The group a video is pushed to, and a plausible slip: the stored category
\* is used as it is.
groupOf_asStored(video) == video.category

groupOf(video) ==
    IF video.category \notin {NoCategory, ""}
       /\ video.category \in {"Botany", "Zoology", "NCERT line by line"}
    THEN video.category
    ELSE "Other"

\* grouped[cat].push(video), after `if (!grouped[cat]) grouped[cat] = []`.
pushInto(grouped, cat, video) ==
    IF cat \in DOMAIN grouped
    THEN [grouped EXCEPT ![cat] = Append(@, video)]
    ELSE grouped @@ (cat :> <<video>>)

RECURSIVE forEachVideo(_, _, _)
forEachVideo(list, i, grouped) ==
    IF i > Len(list) THEN grouped
    ELSE forEachVideo(list, i + 1, pushInto(grouped, groupOf(list[i]), list[i]))

\* categorizedVideos
categorizedVideos(list) ==
    forEachVideo(list, 1, [c \in {CATEGORIES[i] : i \in 1..Len(CATEGORIES)} |-> <<>>])

\* Lists of summaries, the k-th with id k.
SummaryOfCategory(k, c) ==
    [id |-> k, title |-> <<"a">>, category |-> c, thumbnailUrl |-> "",
     createdAt |-> 0, duration |-> 0]

SummaryLists ==
    {[k \in 1..Len(cs) |-> SummaryOfCategory(k, cs[k])] : cs \in SeqsUpTo(AnyCategory, MaxListLen)}

\* The memo categorizedVideos is computed for the list fnInput.
callCategorizedVideos ==
    /\ lastOp.op = "init"
    /\ fnOutput' = categorizedVideos(fnInput)
    /\ lastOp' = Op("categorizedVideos", 0)
    /\ UNCHANGED <<notFnVars, fnInput>>

CatNext == callCategorizedVideos

CatSpecInit ==
    /\ PlayerInit /\ AdminInit /\ AppInit
    /\ db = {} /\ deletedIds = {}
    /\ ai = FALSE
    /\ thumbnailIdle
    /\ fnInput \in SummaryLists
    /\ fnOutput = <<>>
    /\ lastOp = Op("init", 0)

SpecCat == CatSpecInit /\ [][CatNext]_vars

(* -------------------- components/AdminPanel.tsx ------------------------ *)

\* The files the user can pick, by name.
fileNames ==
    << <<"l", "e", "c", "t", "u", "r", "e", "_", "0", "1", "-",
         "i", "n", "t", "r", "o", ".", "m", "p", "4">>,
       <<"m", "y", "-", "c", "l", "i", "p", ".", "v", "2", ".", "m", "o", "v">> >>

Files == DOMAIN fileNames

\* The select offers the four CATEGORIES; the model's user picks the first or
\* the last of them.
CategoryChoices == {CATEGORIES[1], CATEGORIES[Len(CATEGORIES)]}

\* What the user types into the title input.
TitleEdits == {<<>>, <<" ">>, <<" ", "N">>}

\* The error message of handleUpload's catch block is shown / not shown.
NoError == FALSE

UploadError == TRUE

\* History kept with every handleUpload call in flight: another handler has
\* changed the form or the error message since the call was made.
disturb(us) == {[u EXCEPT !.disturbed = TRUE] : u \in us}

\* handleFileChange: the user picks file f in the file dialog, which opens from
\* the drop area shown while no file is selected; the input fires 'change'
\* only for a file other than its current value.  Without the client `ai`
\* generateCleanTitle is settled when the handler's task ends; with it the call
\* stays in flight.
handleFileChange(f) ==
    /\ file = NoFile
    /\ f # fileInputValue
    /\ fileInputValue' = f
    /\ file' = f
    /\ error' = NoError
    /\ IF ai
       THEN /\ Cardinality(suggestions) < MaxInFlight
            /\ isProcessing' = TRUE
            /\ suggestions' = suggestions \cup
                 {[n |-> Min({k \in 1..MaxInFlight : \A g \in suggestions : g.n # k}),
                   file |-> f]}
            /\ UNCHANGED title
       ELSE /\ title' = generateCleanTitle(fileNames[f], ai, [kind |-> "none"]).value
            /\ isProcessing' = FALSE
            /\ UNCHANGED suggestions
    /\ uploads' = disturb(uploads)
    /\ issued' = <<"generateCleanTitle">>
    /\ lastOp' = Op("handleFileChange", f)
    /\ UNCHANGED <<category, uploadCount, buttonLocks, clock>>
    /\ UNCHANGED <<playerVars, storeVars, ai, fnVars, thumbVars, appVars>>

\* The awaited generateCleanTitle of a handleFileChange call settles.
titleSuggestionSettle(g, outcome) ==
    /\ g \in suggestions
    /\ suggestions' = suggestions \ {g}
    /\ LET r == generateCleanTitle(fileNames[g.file], ai, outcome)
       IN title' = IF r.status = "resolved" THEN r.value
                   ELSE stripExtension(fileNames[g.file])
    /\ isProcessing' = FALSE
    /\ uploads' = disturb(uploads)
    /\ issued' = <<>>
    /\ lastOp' = Op("titleSuggestionSettle", g.file)
    /\ UNCHANGED <<file, category, error, fileInputValue, uploadCount, buttonLocks, clock>>
    /\ UNCHANGED <<playerVars, storeVars, ai, fnVars, thumbVars, appVars>>

\* The title input's onChange (the input is rendered while a file is selected).
titleOnChange(text) ==
    /\ file # NoFile
    /\ text # title
    /\ title' = text
    /\ uploads' = disturb(uploads)
    /\ issued' = <<>>
    /\ lastOp' = Op("titleOnChange", 0)
    /\ UNCHANGED <<file, category, isProcessing, error, fileInputValue, suggestions,
                   uploadCount, buttonLocks, clock>>
    /\ UNCHANGED <<playerVars, storeVars, ai, fnVars, thumbVars, appVars>>

\* The category select's onChange.
categoryOnChange(c) ==
    /\ file # NoFile
    /\ c # category
    /\ category' = c
    /\ uploads' = disturb(uploads)
    /\ issued' = <<>>
    /\ lastOp' = Op("categoryOnChange", 0)
    /\ UNCHANGED <<file, title, isProcessing, error, fileInputValue, suggestions,
                   uploadCount, buttonLocks, clock>>
    /\ UNCHANGED <<playerVars, storeVars, ai, fnVars, thumbVars, appVars>>

\* The Remove button: setFile(null); setTitle('').
removeFile ==
    /\ file # NoFile
    /\ file' = NoFile
    /\ title' = <<>>
    /\ uploads' = disturb(uploads)
    /\ issued' = <<>>
    /\ lastOp' = Op("removeFile", 0)
    /\ UNCHANGED <<category, isProcessing, error, fileInputValue, suggestions,
                   uploadCount, buttonLocks, clock>>
    /\ UNCHANGED <<playerVars, storeVars, ai, fnVars, thumbVars, appVars>>

\* The Upload button passes a click on to handleUpload: it is rendered while a
\* file is selected and disabled while the title is empty.
uploadButtonEnabled ==
    /\ file # NoFile
    /\ title # <<>>
    /\ buttonLocks => ~isProcessing

\* handleUpload up to its first await: the call closes over file, title and
\* category of the render it was made in.
handleUpload ==
    /\ uploadButtonEnabled
    /\ file # NoFile /\ title # <<>>
    /\ uploadCount < MaxUploads
    /\ uploadCount' = uploadCount + 1
    /\ isProcessing' = TRUE
    /\ error' = NoError
    /\ uploads' = uploads \cup
         {[n |-> uploadCount + 1, file |-> file, title |-> title,
           category |-> category, phase |-> "generateThumbnail",
           video |-> Undefined, thumbnailFailed |-> FALSE, disturbed |-> FALSE]}
    /\ issued' = <<"generateThumbnail">>
    /\ lastOp' = Op("handleUpload", uploadCount + 1)
    /\ UNCHANGED <<file, title, category, fileInputValue, suggestions, buttonLocks, clock>>
    /\ UNCHANGED <<playerVars, storeVars, ai, fnVars, thumbVars, appVars>>

\* How generateThumbnail ends: 'seeked' with a canvas context, 'seeked' without
\* one, the element's 'error', or the 10-second timeout.
ThumbnailOutcomes == {"seeked", "noContext", "error", "timeout"}

\* generateThumbnail(file)
generateThumbnail(f, outcome) ==
    IF outcome = "seeked"
    THEN [ok |-> TRUE, url |-> "data:image/jpeg", duration |-> f]
    ELSE [ok |-> FALSE, url |-> "", duration |-> 0]

\* The inner try/catch of handleUpload around generateThumbnail; a plausible
\* slip (the earlier version of the panel) lets the failure reach the outer
\* catch.
afterThumbnail_fatal(result) ==
    [proceed |-> result.ok, thumbnailUrl |-> result.url, duration |-> result.duration]

afterThumbnail(result) ==
    IF result.ok
    THEN [proceed |-> TRUE, thumbnailUrl |-> result.url, duration |-> result.duration]
    ELSE [proceed |-> TRUE, thumbnailUrl |-> "", duration |-> 0]

\* The title handleUpload stores: title.trim() (a plausible slip stores the
\* title as typed).
titleStored_asTyped(str) == str

titleStored(str) == trim(str)

\* videoData, as handleUpload builds it; uuidv4() of the n-th call is n.
videoData(u, thumb, now) ==
    [id |-> u.n, title |-> titleStored(u.title), category |-> u.category, blob |-> u.file,
     thumbnailUrl |-> thumb.thumbnailUrl, createdAt |-> now, duration |-> thumb.duration]

\* The catch and finally blocks of handleUpload.
uploadFails(u) ==
    /\ uploads' = disturb(uploads \ {u})
    /\ error' = UploadError
    /\ isProcessing' = FALSE
    /\ issued' = <<>>
    /\ UNCHANGED <<file, title, category, fileInputValue, suggestions, uploadCount,
                   buttonLocks>>
    /\ UNCHANGED <<playerVars, storeVars, ai, fnVars, thumbVars, appVars>>

\* generateThumbnail settles; handleUpload goes on to call saveVideo.
thumbnailSettle(u, outcome, now) ==
    /\ u \in uploads /\ u.phase = "generateThumbnail"
    /\ now \in Timestamps /\ now >= clock
    /\ clock' = now
    /\ LET result == generateThumbnail(u.file, outcome)
           thumb == afterThumbnail(result)
       IN /\ IF thumb.proceed
             THEN /\ uploads' = (uploads \ {u}) \cup
                        {[u EXCEPT !.phase = "saveVideo",
                                   !.video = videoData(u, thumb, now),
                                   !.thumbnailFailed = ~result.ok]}
                  /\ issued' = <<"saveVideo">>
                  /\ UNCHANGED <<file, title, category, isProcessing, error,
                                 fileInputValue, suggestions, uploadCount, buttonLocks>>
                  /\ UNCHANGED <<playerVars, storeVars, ai, fnVars, thumbVars, appVars>>
             ELSE uploadFails(u)
          /\ lastOp' = OpR("thumbnailSettle", u.n, result.ok)

\* What the form holds after saveVideo settled (a plausible slip resets the
\* form in the finally block).
formAfterSave_always(ok, form) ==
    [file |-> NoFile, title |-> <<>>, category |-> form.category, fileInputValue |-> NoFile]

formAfterSave(ok, form) ==
    IF ok
    THEN [file |-> NoFile, title |-> <<>>, category |-> form.category,
          fileInputValue |-> NoFile]
    ELSE form

\* handleUpload calls saveVideo again when it was rejected: it does not (a
\* plausible slip retries the write).
saveRetried_whenRejected(ok) == ~ok

saveRetried(ok) == FALSE

\* App.loadVideos up to its await: setIsLoading(true), getAllVideos() called.
loadVideosCalled ==
    /\ isLoading' = TRUE
    /\ loads' = loads + 1

\* The awaited saveVideo of a handleUpload call settles.
saveSettle(u, quotaOk) ==
    /\ u \in uploads /\ u.phase = "saveVideo"
    /\ LET ok == ~addRejected(db, u.video, quotaOk)
           form == formAfterSave(ok, [file |-> file, title |-> title,
                                      category |-> category,
                                      fileInputValue |-> fileInputValue])
       IN /\ file' = form.file
          /\ title' = form.title
          /\ category' = form.category
          /\ fileInputValue' = form.fileInputValue
          /\ isProcessing' = FALSE
          /\ uploads' = disturb(IF saveRetried(ok) THEN uploads ELSE uploads \ {u})
          /\ issued' = IF saveRetried(ok) THEN <<"saveVideo">>
                        ELSE IF ok THEN <<"onUploadSuccess">> ELSE <<>>
          /\ IF ok
             THEN /\ db' = saveVideoOp(db, u.video)
                  /\ deletedIds' = deletedIds \ {u.video.id}
                  /\ loadVideosCalled
                  /\ UNCHANGED error
             ELSE /\ error' = UploadError
                  /\ UNCHANGED <<db, deletedIds, isLoading, loads>>
          /\ lastOp' = OpR("saveSettle", u.n, ok)
    /\ UNCHANGED <<suggestions, uploadCount, buttonLocks, clock>>
    /\ UNCHANGED <<videos, isAdminOpen, passwordInput, showPasswordPrompt,
                   isAuthenticated, deletes, viewVars, searchQuery, snapshots>>
    /\ UNCHANGED <<playerVars, ai, fnVars, thumbVars>>

AdminNext ==
    \/ \E f \in Files : handleFileChange(f)
    \/ \E g \in suggestions, outcome \in ServiceOutcomes : titleSuggestionSettle(g, outcome)
    \/ \E text \in TitleEdits : titleOnChange(text)
    \/ \E c \in CategoryChoices : categoryOnChange(c)
    \/ removeFile
    \/ handleUpload
    \/ \E u \in uploads, outcome \in ThumbnailOutcomes, now \in Timestamps :
           thumbnailSettle(u, outcome, now)
    \/ \E u \in uploads, quotaOk \in BOOLEAN : saveSettle(u, quotaOk)

\* The panel was opened by an authenticated user, on an empty store.
AdminSpecInit ==
    /\ PlayerInit
    /\ db = {} /\ deletedIds = {}
    /\ ai \in BOOLEAN
    /\ thumbnailIdle
    /\ fnInput = <<>> /\ fnOutput = <<>>
    /\ file = NoFile /\ title = <<>> /\ category = "Botany"
    /\ isProcessing = FALSE /\ error = NoError /\ fileInputValue = NoFile
    /\ suggestions = {} /\ uploads = {} /\ uploadCount = 0
    /\ issued = <<>>
    /\ buttonLocks \in BOOLEAN
    /\ clock = 1
    /\ videos = <<>> /\ isLoading = FALSE /\ loads = 0 /\ deletes = <<>>
    /\ viewState = "HOME" /\ selectedVideo = NoSelection
    /\ selects = {} /\ selectCount = 0 /\ videoUrl = 0 /\ urls = {}
    /\ searchQuery = <<>> /\ snapshots = {}
    /\ isAdminOpen = TRUE /\ isAuthenticated = TRUE
    /\ passwordInput = "" /\ showPasswordPrompt = FALSE
    /\ lastOp = Op("init", 0)

SpecAdmin == AdminSpecInit /\ [][AdminNext]_vars

(* -------------------------------- App --------------------------------- *)

\* Number of loadVideos calls in flight together.
MaxLoads == 2

\* Number of handleVideoSelect calls in a behaviour.
MaxSelects == 2

\* What the user types into the password input.
PasswordEdits == {"", "admin", "Admin"}

\* App renders the Player alone while viewState is PLAYER and a video is
\* selected, and the header, the gallery and the overlays otherwise.
playerShown == viewState = "PLAYER" /\ selectedVideo # NoSelection

\* The gallery's cards can be clicked: the grids are rendered with the videos
\* while isLoading is false, and neither overlay covers them.
galleryShown == ~playerShown /\ ~isLoading /\ ~isAdminOpen /\ ~showPasswordPrompt

\* The summaries on display: the gallery renders them while isLoading is
\* false, the admin list whenever the panel is open.
displayedIds == {videos[i].id : i \in 1..Len(videos)}

\* What a getAllVideos call that settles now can resolve with: a list read
\* earlier, or the store's content of this moment when some call in flight has
\* not read yet.
loadResults ==
    snapshots \cup (IF Cardinality(snapshots) < loads THEN {getAllVideos(db)} ELSE {})

\* The awaited getAllVideos of a loadVideos call settles: setVideos(data) when
\* it resolved, setIsLoading(false) either way.
loadSettle(ok) ==
    /\ loads > 0
    /\ loads' = loads - 1
    /\ \E data \in loadResults :
         /\ videos' = IF ok THEN data ELSE videos
         /\ snapshots' = snapshots \ {data}
    /\ isLoading' = FALSE
    /\ lastOp' = OpR("loadSettle", 0, ok)
    /\ UNCHANGED <<isAdminOpen, passwordInput, showPasswordPrompt, isAuthenticated, deletes>>
    /\ UNCHANGED <<playerVars, storeVars, ai, fnVars, thumbVars, adminVars, viewVars, searchQuery>>

\* getAllVideos of a loadVideos call walks its cursor over the store: the
\* list it will resolve with is the store's content of this moment, and the
\* call settles in a later step.
getAllVideosRead ==
    /\ Cardinality(snapshots) < loads
    /\ getAllVideos(db) \notin snapshots
    /\ snapshots' = snapshots \cup {getAllVideos(db)}
    /\ lastOp' = Op("getAllVideosRead", 0)
    /\ UNCHANGED <<videos, isLoading, isAdminOpen, passwordInput, showPasswordPrompt,
                   isAuthenticated, loads, deletes>>
    /\ UNCHANGED <<playerVars, storeVars, ai, fnVars, thumbVars, adminVars, viewVars, searchQuery>>

\* handleAdminAccess: the lock button of the header, which the password
\* prompt and the admin panel cover.
handleAdminAccess ==
    /\ ~playerShown
    /\ ~showPasswordPrompt /\ ~isAdminOpen
    /\ IF isAuthenticated
       THEN isAdminOpen' = TRUE /\ UNCHANGED showPasswordPrompt
       ELSE showPasswordPrompt' = TRUE /\ UNCHANGED isAdminOpen
    /\ lastOp' = Op("handleAdminAccess", 0)
    /\ UNCHANGED <<videos, isLoading, passwordInput, isAuthenticated, loads, deletes>>
    /\ UNCHANGED <<playerVars, storeVars, ai, fnVars, thumbVars, adminVars, viewVars, searchQuery, snapshots>>

\* The password input's onChange.
passwordOnChange(p) ==
    /\ ~playerShown
    /\ showPasswordPrompt
    /\ p # passwordInput
    /\ passwordInput' = p
    /\ lastOp' = Op("passwordOnChange", 0)
    /\ UNCHANGED <<videos, isLoading, isAdminOpen, showPasswordPrompt, isAuthenticated,
                   loads, deletes>>
    /\ UNCHANGED <<playerVars, storeVars, ai, fnVars, thumbVars, adminVars, viewVars, searchQuery, snapshots>>

\* The test of handlePasswordSubmit (a plausible slip: the comparison ignores
\* case).
passwordAccepted_ignoringCase(p) == p \in {"admin", "Admin"}

passwordAccepted(p) == p = "admin"

\* setPasswordInput('') of the accepting branch (a plausible slip leaves the
\* typed password in the input).
passwordAfterAccept_kept(p) == p

passwordAfterAccept(p) == ""

\* handlePasswordSubmit: a wrong password raises an alert and changes nothing.
handlePasswordSubmit ==
    /\ ~playerShown
    /\ showPasswordPrompt
    /\ IF passwordAccepted(passwordInput)
       THEN /\ isAuthenticated' = TRUE
            /\ showPasswordPrompt' = FALSE
            /\ isAdminOpen' = TRUE
            /\ passwordInput' = passwordAfterAccept(passwordInput)
       ELSE UNCHANGED <<isAuthenticated, showPasswordPrompt, isAdminOpen, passwordInput>>
    /\ lastOp' = OpR("handlePasswordSubmit", 0, passwordAccepted(passwordInput))
    /\ UNCHANGED <<videos, isLoading, loads, deletes>>
    /\ UNCHANGED <<playerVars, storeVars, ai, fnVars, thumbVars, adminVars, viewVars, searchQuery, snapshots>>

\* The prompt's Cancel button.
passwordCancel ==
    /\ ~playerShown
    /\ showPasswordPrompt
    /\ showPasswordPrompt' = FALSE
    /\ lastOp' = Op("passwordCancel", 0)
    /\ UNCHANGED <<videos, isLoading, isAdminOpen, passwordInput, isAuthenticated,
                   loads, deletes>>
    /\ UNCHANGED <<playerVars, storeVars, ai, fnVars, thumbVars, adminVars, viewVars, searchQuery, snapshots>>

\* The panel's onClose.
adminClose ==
    /\ ~playerShown
    /\ isAdminOpen
    /\ isAdminOpen' = FALSE
    /\ lastOp' = Op("adminClose", 0)
    /\ UNCHANGED <<videos, isLoading, passwordInput, showPasswordPrompt, isAuthenticated,
                   loads, deletes>>
    /\ UNCHANGED <<playerVars, storeVars, ai, fnVars, thumbVars, adminVars, viewVars, searchQuery, snapshots>>

\* The condition under which a click on a delete button goes on to the
\* deletion (a plausible slip: the answer of window.confirm is not tested).
deleteClickProceeds_unconfirmed(hasHandler, confirmed) == hasHandler

deleteClickProceeds(hasHandler, confirmed) == hasHandler /\ confirmed

\* handleDeleteVideo up to its await: deleteVideo(id) is called on the store.
handleDeleteVideoCalled(id) == deletes' = Append(deletes, id)

\* The click on a delete button, with the answer of window.confirm.
deleteClicked(name, id, hasHandler, confirmed) ==
    /\ IF deleteClickProceeds(hasHandler, confirmed)
       THEN /\ Len(deletes) < MaxInFlight
            /\ handleDeleteVideoCalled(id)
       ELSE UNCHANGED deletes
    /\ lastOp' = OpR(name, id, confirmed)
    /\ UNCHANGED <<videos, isLoading, isAdminOpen, passwordInput, showPasswordPrompt,
                   isAuthenticated, loads>>
    /\ UNCHANGED <<playerVars, storeVars, ai, fnVars, thumbVars, adminVars, viewVars, searchQuery, snapshots>>

\* The onDeleteVideo prop App passes to the gallery's grids is defined:
\* isAuthenticated ? handleDeleteVideo : undefined.
galleryOnDeleteVideo == isAuthenticated

\* VideoGrid.handleDeleteClick: the button of a gallery card, rendered when
\* App passes onDeleteVideo (isAuthenticated) for the videos of a grid that is
\* not loading; the admin panel covers the gallery.
handleDeleteClick(id, confirmed) ==
    /\ galleryShown
    /\ galleryOnDeleteVideo
    /\ id \in displayedIds
    /\ deleteClicked("handleDeleteClick", id, galleryOnDeleteVideo, confirmed)

\* AdminPanel.handleDelete: the button of a row of existingVideos.
handleDelete(id, confirmed) ==
    /\ ~playerShown
    /\ isAdminOpen
    /\ id \in displayedIds
    /\ deleteClicked("handleDelete", id, TRUE, confirmed)

\* The awaited deleteVideo of the oldest handleDeleteVideo call settles; the
\* call goes on to loadVideos() when it resolved and ends when it rejected.
deleteSettle(ok) ==
    /\ deletes # <<>>
    /\ deletes' = Tail(deletes)
    /\ IF ok
       THEN /\ loads < MaxLoads
            /\ db' = deleteVideoOp(db, Head(deletes))
            /\ deletedIds' = deletedIds \cup {Head(deletes)}
            /\ loadVideosCalled
       ELSE UNCHANGED <<db, deletedIds, isLoading, loads>>
    /\ lastOp' = OpR("deleteSettle", Head(deletes), ok)
    /\ UNCHANGED <<videos, isAdminOpen, passwordInput, showPasswordPrompt, isAuthenticated>>
    /\ UNCHANGED <<playerVars, ai, fnVars, thumbVars, adminVars, viewVars, searchQuery, snapshots>>

\* URL.revokeObjectURL(videoUrl) in the cleanup of the Player's effect (a
\* plausible slip revokes nothing).
revokeObjectURL_skipped(us, url) == us

revokeObjectURL(us, url) == us \ {url}

\* handleVideoSelect up to its await: getVideoById(id) is called.
handleVideoSelect(id) ==
    /\ galleryShown
    /\ id \in displayedIds
    /\ selectCount < MaxSelects
    /\ selectCount' = selectCount + 1
    /\ selects' = selects \cup {[n |-> selectCount + 1, id |-> id]}
    /\ lastOp' = Op("handleVideoSelect", id)
    /\ UNCHANGED <<viewState, selectedVideo, videoUrl, urls>>
    /\ UNCHANGED <<videos, isLoading, isAdminOpen, passwordInput, showPasswordPrompt,
                   isAuthenticated, loads, deletes>>
    /\ UNCHANGED <<playerVars, storeVars, ai, fnVars, thumbVars, adminVars, searchQuery, snapshots>>

\* The call goes on to select the video: it resolved, and if (videoData) (a
\* plausible slip does not test the record).
selectOpens_untested(ok, record) == ok

selectOpens(ok, record) == ok /\ record # Undefined

\* The awaited getVideoById of a handleVideoSelect call settles.  With a
\* record, App selects it and shows the Player: a Player that is mounted gets
\* a video with another Blob, creates the URL of that and its effect's cleanup
\* revokes the one before; otherwise a Player is mounted and creates its URL.
\* Without a record, or when the call rejects, nothing happens.
selectSettle(c, ok) ==
    /\ c \in selects
    /\ selects' = selects \ {c}
    /\ IF selectOpens(ok, getVideoById(db, c.id))
       THEN /\ selectedVideo' = [video |-> getVideoById(db, c.id), fetch |-> c.n]
            /\ viewState' = "PLAYER"
            /\ videoUrl' = c.n
            /\ urls' = (IF playerShown THEN revokeObjectURL(urls, videoUrl) ELSE urls)
                         \cup {c.n}
       ELSE UNCHANGED <<viewState, selectedVideo, videoUrl, urls>>
    /\ lastOp' = OpR("selectSettle", c.id, selectOpens(ok, getVideoById(db, c.id)))
    /\ UNCHANGED selectCount
    /\ UNCHANGED <<videos, isLoading, isAdminOpen, passwordInput, showPasswordPrompt,
                   isAuthenticated, loads, deletes>>
    /\ UNCHANGED <<playerVars, storeVars, ai, fnVars, thumbVars, adminVars, searchQuery, snapshots>>

\* handleBackToHome, the Player's Back button: the Player is unmounted and
\* its effect's cleanup runs.
handleBackToHome ==
    /\ playerShown
    /\ viewState' = "HOME"
    /\ selectedVideo' = NoSelection
    /\ urls' = revokeObjectURL(urls, videoUrl)
    /\ videoUrl' = 0
    /\ lastOp' = Op("handleBackToHome", 0)
    /\ UNCHANGED <<selects, selectCount>>
    /\ UNCHANGED <<videos, isLoading, isAdminOpen, passwordInput, showPasswordPrompt,
                   isAuthenticated, loads, deletes>>
    /\ UNCHANGED <<playerVars, storeVars, ai, fnVars, thumbVars, adminVars, searchQuery, snapshots>>

AppNext ==
    \/ \E ok \in BOOLEAN : loadSettle(ok)
    \/ getAllVideosRead
    \/ handleAdminAccess
    \/ \E p \in PasswordEdits : passwordOnChange(p)
    \/ handlePasswordSubmit
    \/ passwordCancel
    \/ adminClose
    \/ \E id \in VideoIds, confirmed \in BOOLEAN : handleDeleteClick(id, confirmed)
    \/ \E id \in VideoIds, confirmed \in BOOLEAN : handleDelete(id, confirmed)
    \/ \E ok \in BOOLEAN : deleteSettle(ok)
    \/ \E id \in VideoIds : handleVideoSelect(id)
    \/ \E c \in selects, ok \in BOOLEAN : selectSettle(c, ok)
    \/ handleBackToHome

\* A record of an earlier session.
StoredVideo(i) ==
    IF i = MaxIds THEN LegacyVideo
    ELSE [id |-> i, title |-> <<"a">>, category |-> "Botany", blob |-> 1,
          thumbnailUrl |-> "", createdAt |-> 1, duration |-> 0]

\* The application was opened on an empty store, or on one holding two
\* records of earlier sessions.
AppSpecInit ==
    /\ PlayerInit /\ AdminInit /\ AppInit
    /\ db \in {{}, {StoredVideo(1), LegacyVideo}}
    /\ deletedIds = {}
    /\ ai = FALSE
    /\ thumbnailIdle
    /\ fnInput = <<>> /\ fnOutput = <<>>
    /\ lastOp = Op("init", 0)

SpecApp == AppSpecInit /\ [][AppNext]_vars

(* --------------------------- App.tsx: search --------------------------- *)

\* Longest search query, and longest title of a video searched.
MaxQueryLen == 2

\* Number of videos in the store that is searched.
MaxShown == 2

\* The letters typed into the search input, and those of the titles searched.
QueryChars == {"a", "A", "b"}

TitleChars == {"a", "B"}

\* String.prototype.toLowerCase, letter by letter (a plausible slip compares
\* the strings as they are).
toLowerCase_asIs(str) == str

toLowerCase(str) ==
    [i \in 1..Len(str) |->
        CASE str[i] = "A" -> "a"
          [] str[i] = "B" -> "b"
          [] OTHER -> str[i]]

\* String.prototype.includes
includes(str, sub) ==
    \E k \in 0..(Len(str) - Len(sub)) : SubSeq(str, k + 1, k + Len(sub)) = sub

\* filteredVideos is null: if (!searchQuery) return null.
filteredVideosIsNull(query) == query = <<>>

\* filteredVideos, when it is not null.
filteredVideos(list, query) ==
    LET lower == toLowerCase(query)
        test(v) == includes(toLowerCase(v.title), lower)
    IN SelectSeq(list, test)

\* What VideoGrid renders for a list when it is not loading: the empty state
\* ('No videos found.') or the cards.
VideoGrid(list) ==
    [kind |-> IF Len(list) = 0 THEN "empty" ELSE "grid", videos |-> list]

\* What App renders in <main>: the placeholders while loading, the search
\* results when filteredVideos is not null, and the categorized view
\* otherwise.
galleryView ==
    IF isLoading THEN [kind |-> "loading", videos |-> <<>>]
    ELSE IF ~filteredVideosIsNull(searchQuery)
    THEN VideoGrid(filteredVideos(videos, searchQuery))
    ELSE [kind |-> "categories", videos |-> videos]

\* The search input's onChange: setSearchQuery(e.target.value).
searchOnChange(q) ==
    /\ ~playerShown
    /\ q # searchQuery
    /\ searchQuery' = q
    /\ lastOp' = Op("searchOnChange", Len(q))
    /\ UNCHANGED <<videos, isLoading, isAdminOpen, passwordInput, showPasswordPrompt,
                   isAuthenticated, loads, deletes, viewVars, snapshots>>
    /\ UNCHANGED <<playerVars, storeVars, ai, fnVars, thumbVars, adminVars>>

SearchNext == \E q \in SeqsUpTo(QueryChars, MaxQueryLen) : searchOnChange(q)

\* A record of the store that is searched.
searchedVideo(i, t) ==
    [id |-> i, title |-> t, category |-> "Botany", blob |-> 1,
     thumbnailUrl |-> "", createdAt |-> i, duration |-> 0]

SearchedStores ==
    {{searchedVideo(i, f[i]) : i \in DOMAIN f} :
        f \in UNION {[1..n -> SeqsUpTo(TitleChars, MaxQueryLen)] : n \in 0..MaxShown}}

\* The application was opened on a store of videos and the load of its mount
\* effect has settled.
SearchSpecInit ==
    /\ PlayerInit /\ AdminInit
    /\ db \in SearchedStores
    /\ deletedIds = {}
    /\ videos = getAllVideos(db) /\ isLoading = FALSE /\ loads = 0
    /\ isAdminOpen = FALSE /\ passwordInput = "" /\ showPasswordPrompt = FALSE
    /\ isAuthenticated = FALSE /\ deletes = <<>>
    /\ viewState = "HOME" /\ selectedVideo = NoSelection
    /\ selects = {} /\ selectCount = 0 /\ videoUrl = 0 /\ urls = {}
    /\ searchQuery = <<>> /\ snapshots = {}
    /\ ai = FALSE
    /\ thumbnailIdle
    /\ fnInput = <<>> /\ fnOutput = <<>>
    /\ lastOp = Op("init", 0)

SpecSearch == SearchSpecInit /\ [][SearchNext]_vars

(* --------------- claims about the title service and grouping ----------- *)

\* The file name without its final extension: without its last dot and what
\* follows it, when something follows it.
withoutFinalExtension(name) ==
    LET dots == {p \in 1..Len(name) : name[p] = "."}
        last == CHOOSE p \in dots : \A q \in dots : q <= p
    IN IF dots = {} \/ last = Len(name) THEN name ELSE SubSeq(name, 1, last - 1)

isCleanupOf(name, str) ==
    LET base == withoutFinalExtension(name)
    IN /\ Len(str) = Len(base)
       /\ \A i \in 1..Len(base) :
            /\ base[i] \in {"_", "-"} => str[i] = " "
            /\ base[i] \notin {"_", "-"} => str[i] = base[i]

\* C9: a call of generateCleanTitle never rejects: it resolves to a string,
\* and when the service is absent, throws or answers without text, the string
\* is the file name without its final extension and with every '_' and '-'
\* replaced by a space.
C9_CleanTitleNeverRejects ==
    fnOutput.status # "pending" =>
        /\ fnOutput.status = "resolved"
        /\ fnOutput.value \in Seq(NameChars \cup {" ", "T", "t"})
        /\ (~ai \/ fnOutput.outcome \in {"throws", "noText"}) =>
               isCleanupOf(fnInput, fnOutput.value)

\* C9 witness: the service threw for the file name "-..a", which has two
\* dots, and the call resolved to " .".
C9_Witness ==
    /\ ai /\ fnOutput.outcome = "throws"
    /\ fnInput = <<"-", ".", ".", "a">>
    /\ fnOutput.status = "resolved"
    /\ fnOutput.value = <<" ", ".">>

\* C10: grouping is a total partition: there are exactly the four groups, each
\* summary of the list is once in the group of its category when that is
\* 'Botany', 'Zoology' or 'NCERT line by line' and once in 'Other' otherwise
\* (category 'Other', missing, empty or unrecognized), and in no other group.
occurrences(list, x) == Cardinality({i \in 1..Len(list) : list[i] = x})

C10_GroupingIsPartition ==
    lastOp.op = "categorizedVideos" =>
        /\ DOMAIN fnOutput = {"Botany", "Zoology", "NCERT line by line", "Other"}
        /\ \A i \in 1..Len(fnInput) :
             LET v == fnInput[i]
                 own == IF v.category \in {"Botany", "Zoology", "NCERT line by line"}
                        THEN v.category ELSE "Other"
             IN \A g \in DOMAIN fnOutput :
                    occurrences(fnOutput[g], v) = IF g = own THEN 1 ELSE 0

\* C10 witness: a list with a summary without category, one with an
\* unrecognized category and one of 'Zoology' was grouped.
C10_Witness ==
    /\ lastOp.op = "categorizedVideos"
    /\ Len(fnInput) = 3
    /\ fnInput[1].category = NoCategory
    /\ fnInput[2].category = "Physics"
    /\ fnInput[3].category = "Zoology"
    /\ Len(fnOutput["Other"]) = 2 /\ Len(fnOutput["Zoology"]) = 1


(* ----------------------- claims about the Player ----------------------- *)

\* C1: after the volume slider's change handler ran with value v, the volume
\* state equals v and isMuted is false exactly when v > 0.
C1_SliderSetsVolumeAndMute ==
    lastOp.op = "volumeSliderOnChange" =>
        /\ volume = lastOp.arg
        /\ (isMuted = FALSE) <=> (lastOp.arg > 0)

\* C1 witness: the slider was dragged to 0.35 while the video was playing with
\* the controls hidden by the inactivity timer.
C1_Witness ==
    /\ lastOp = Op("volumeSliderOnChange", 7)
    /\ volume = 7 /\ ~isMuted
    /\ isPlaying /\ ~showControls

\* C2: from every reachable unmuted state with volume v, toggleMute followed by
\* toggleMute gives volume v again and isMuted false; while the slider was
\* never used the volume restored by unmuting is 1.
C2_MuteUnmuteRoundTrip ==
    LET once == toggleMuteState(audioState)
        twice == toggleMuteState(once)
    IN /\ ~isMuted => (once.isMuted /\ once.volume = 0
                       /\ twice.volume = volume /\ ~twice.isMuted)
       /\ (~volumeSet /\ ~isMuted) => twice.volume = VolumeMax
       /\ (~volumeSet /\ isMuted) => once.volume = VolumeMax

\* C2 witness: the volume was set to 0.35 with the slider, then muted and
\* unmuted with the mute button, and is 0.35 again.
C2_Witness ==
    /\ lastOp = Op("toggleMute", 0)
    /\ volumeSet /\ ~isMuted /\ volume = 7 /\ elVolume = 7 /\ ~elMuted

\* C3: when the inactivity timeout expires, the controls and the speed menu are
\* hidden if the player is playing at that moment and left as they are if it
\* is paused at that moment.
C3_ExpiryTestsCurrentPlayState ==
    [][lastOp'.op = "controlsTimeoutFire" =>
         IF isPlaying
         THEN showControls' = FALSE /\ showSpeedMenu' = FALSE
         ELSE UNCHANGED <<showControls, showSpeedMenu>>]_vars


(* --------------------- claims about the AdminPanel --------------------- *)

\* The handleUpload call whose await settled in the step just taken.
settledUpload(us, n) == CHOOSE u \in us : u.n = n

lectureFileName ==
    <<"l", "e", "c", "t", "u", "r", "e", "_", "0", "1", "-",
      "i", "n", "t", "r", "o", ".", "m", "p", "4">>

C6_FormAsRequested ==
    [][(lastOp'.op = "saveSettle" /\ ~lastOp'.ok) =>
         LET u == settledUpload(uploads, lastOp'.arg)
         IN /\ error' = UploadError
            /\ file' = u.file /\ title' = u.title /\ category' = u.category
            /\ loads' = loads /\ UNCHANGED isLoading
            /\ db' = db
            /\ isProcessing' = FALSE]_vars

\* C6: when saveVideo rejects during handleUpload the error message is set,
\* the handling changes none of file, title and category (they are what they
\* were when the upload was requested unless another handler changed the form
\* while the upload was in flight), onUploadSuccess is not called, nothing is
\* added to the store and isProcessing is false afterwards.
C6_SaveFailureKeepsForm ==
    [][(lastOp'.op = "saveSettle" /\ ~lastOp'.ok) =>
         LET u == settledUpload(uploads, lastOp'.arg)
         IN /\ error' = UploadError
            /\ UNCHANGED <<file, title, category, fileInputValue>>
            /\ ~u.disturbed =>
                   file' = u.file /\ title' = u.title /\ category' = u.category
            /\ loads' = loads /\ UNCHANGED isLoading
            /\ db' = db
            /\ isProcessing' = FALSE]_vars

\* C6 witness: the save of upload 1 was rejected: the error is shown, the form
\* still holds the file, a title and the category chosen, the store is empty
\* and no refresh was called.
C6_Witness ==
    /\ lastOp = OpR("saveSettle", 1, FALSE)
    /\ error = UploadError
    /\ file # NoFile /\ title # <<>> /\ category = "Other"
    /\ ~isProcessing /\ db = {} /\ loads = 0

\* C8 as stated: without the API key, selecting the file
\* 'lecture_01-intro.mp4' puts the title 'lecture 01-intro' into the form.
C8_FallbackTitleAsStated ==
    (/\ ~ai
     /\ lastOp.op = "handleFileChange"
     /\ fileNames[lastOp.arg] = lectureFileName) =>
        title = <<"l", "e", "c", "t", "u", "r", "e", " ", "0", "1", "-",
                  "i", "n", "t", "r", "o">>

\* C8: without the API key, selecting the file 'lecture_01-intro.mp4' puts the
\* title 'lecture 01 intro' into the form: the extension is stripped and the
\* underscore and the hyphen are both replaced by a space.
C8_FallbackTitle ==
    (/\ ~ai
     /\ lastOp.op = "handleFileChange"
     /\ fileNames[lastOp.arg] = lectureFileName) =>
        title = <<"l", "e", "c", "t", "u", "r", "e", " ", "0", "1", " ",
                  "i", "n", "t", "r", "o">>

\* C8 witness: the file was selected without the API key and the form holds
\* the file and the title 'lecture 01 intro', no suggestion in flight.
C8_Witness ==
    /\ ~ai
    /\ lastOp.op = "handleFileChange"
    /\ file # NoFile /\ fileNames[file] = lectureFileName
    /\ title = <<"l", "e", "c", "t", "u", "r", "e", " ", "0", "1", " ",
                 "i", "n", "t", "r", "o">>
    /\ ~isProcessing /\ suggestions = {}


(* --------------------------- claims about App -------------------------- *)

deleteClicks == {"handleDeleteClick", "handleDelete"}

\* C7: deletion is confirmed and refreshed: from the gallery card and from the
\* admin list, deleteVideo(id) is called on the store only by a click on the
\* delete button of id whose confirmation dialog returned true, and a record
\* leaves the store only when such a call settles; a click whose confirmation
\* was declined leaves the store, the displayed list and the calls in flight
\* unchanged; every deletion that succeeded is followed by a call of
\* loadVideos.
C7_DeletionConfirmedAndRefreshed ==
    /\ [][deletes' # deletes =>
            \/ /\ lastOp'.op \in deleteClicks /\ lastOp'.ok
               /\ lastOp'.arg \in displayedIds
               /\ deletes' = Append(deletes, lastOp'.arg)
               /\ UNCHANGED <<db, videos>>
            \/ /\ lastOp'.op = "deleteSettle"
               /\ deletes # <<>> /\ lastOp'.arg = Head(deletes)
               /\ deletes' = Tail(deletes)]_vars
    /\ [][db' # db =>
            /\ lastOp' = OpR("deleteSettle", Head(deletes), TRUE)
            /\ db' = deleteVideoOp(db, Head(deletes))]_vars
    /\ [][(lastOp'.op \in deleteClicks /\ ~lastOp'.ok) =>
            UNCHANGED <<db, videos, deletes, loads, isLoading>>]_vars
    /\ [][(lastOp'.op \in deleteClicks /\ lastOp'.ok) =>
            deletes' = Append(deletes, lastOp'.arg)]_vars
    /\ [][(lastOp'.op = "deleteSettle" /\ lastOp'.ok) =>
            /\ lastOp'.arg \notin keys(db')
            /\ loads' = loads + 1 /\ isLoading']_vars
    /\ [][(lastOp'.op = "deleteSettle" /\ ~lastOp'.ok) =>
            UNCHANGED <<db, videos, loads, isLoading>>]_vars

\* C7 witness: the deletion of video 1, confirmed in the admin list, has
\* succeeded: the record is gone, loadVideos was called and has not settled,
\* the list still shows the video.
C7_Witness ==
    /\ lastOp = OpR("deleteSettle", 1, TRUE)
    /\ isAdminOpen
    /\ 1 \notin keys(db) /\ 1 \in displayedIds
    /\ loads = 1 /\ isLoading /\ deletes = <<>>

\* C7 witness of the gallery: the confirmation of a click on a card's delete
\* button was declined.
C7_WitnessDeclined ==
    /\ lastOp = OpR("handleDeleteClick", 1, FALSE)
    /\ 1 \in keys(db) /\ 1 \in displayedIds /\ deletes = <<>> /\ loads = 0

\* C11: after a loadVideos call whose getAllVideos rejected, the displayed
\* list is empty, whatever was displayed before, and the loading flag is
\* cleared.
C11_FailedLoadShowsEmptyList ==
    lastOp = OpR("loadSettle", 0, FALSE) => (videos = <<>> /\ ~isLoading)

\* C12: admin gating: in every reachable state of App the admin panel is open
\* only if isAuthenticated, the gallery is passed a deletion callback (and a
\* gallery delete button is clicked) only if isAuthenticated; isAuthenticated
\* becomes true only by a handlePasswordSubmit whose password input is exactly
\* 'admin', and once true it stays true.
C12_AdminGating ==
    /\ [](isAdminOpen => isAuthenticated)
    /\ [](galleryOnDeleteVideo => isAuthenticated)
    /\ [][lastOp'.op = "handleDeleteClick" => isAuthenticated]_vars
    /\ [][(~isAuthenticated /\ isAuthenticated') =>
            /\ lastOp' = OpR("handlePasswordSubmit", 0, TRUE)
            /\ showPasswordPrompt /\ passwordInput = "admin"]_vars
    /\ [][isAuthenticated => isAuthenticated']_vars
    /\ [][(lastOp'.op = "handlePasswordSubmit" /\ passwordInput # "admin") =>
            UNCHANGED <<isAuthenticated, isAdminOpen, showPasswordPrompt>>]_vars

\* C12 witness: 'Admin' was submitted and refused, then 'admin' was submitted:
\* the panel is open, the prompt closed and the input cleared.
C12_Witness ==
    /\ lastOp = OpR("handlePasswordSubmit", 0, TRUE)
    /\ isAuthenticated /\ isAdminOpen /\ ~showPasswordPrompt /\ passwordInput = ""

\* C12 witness of a refusal: 'Admin' was submitted.
C12_WitnessRefused ==
    /\ lastOp = OpR("handlePasswordSubmit", 0, FALSE)
    /\ passwordInput = "Admin" /\ ~isAuthenticated /\ ~isAdminOpen /\ showPasswordPrompt

(* -------------------- claims about seek and fullscreen ----------------- *)

C14_TogglePlay ==
    [][lastOp'.op = "togglePlay" =>
         /\ isPlaying' = ~isPlaying
         /\ showSpeedMenu' = FALSE
         /\ isPlaying => (elPaused' /\ lastOp'.ok)
         /\ ~isPlaying => (elPaused' = ~lastOp'.ok)
         /\ UNCHANGED <<volume, isMuted, showControls, prevVolumeRef, elVolume,
                        elMuted, timers, mediaVars>>]_vars

\* C14 witness: the player was paused with togglePlay while the controls were
\* shown; the speed menu is closed.
C14_Witness ==
    /\ lastOp = OpR("togglePlay", 0, TRUE)
    /\ ~isPlaying /\ elPaused /\ ~showSpeedMenu /\ showControls
    /\ ~autoPlayPending /\ volume = 7

(* ----------------------- further claims about App ---------------------- *)

\* C15: media URL lifetime: over any sequence of opening the player, changing
\* its video binary and closing it, the object URL of a binary is revoked when
\* the binary changes or the player is torn down: while a player is mounted
\* the only un-revoked URL is its videoUrl, and none exists while none is.
C15_MediaUrlLifetime ==
    /\ [](IF playerShown THEN videoUrl # 0 /\ urls = {videoUrl}
                         ELSE videoUrl = 0 /\ urls = {})
    /\ [][(videoUrl # 0 /\ videoUrl' # videoUrl) => videoUrl \notin urls']_vars

\* C15 witness: a second binary was fetched and selected: its URL is the
\* only one not revoked.
C15_Witness ==
    /\ lastOp.op = "selectSettle" /\ lastOp.ok
    /\ playerShown /\ selectedVideo.fetch = 2 /\ selectedVideo.video.id = 1
    /\ videoUrl = 2 /\ urls = {2}
    /\ selects = {} /\ deletedIds = {} /\ isAuthenticated

\* C15 witness of the teardown: the player was closed after the binary had
\* changed, and no URL is left.
C15_WitnessClosed ==
    /\ lastOp = Op("handleBackToHome", 0)
    /\ selectCount = 2 /\ selects = {} /\ urls = {} /\ videoUrl = 0

(* ------------------ further claims about the AdminPanel ---------------- *)

\* t is str without its leading and trailing spaces.
isTrimOf(str, t) ==
    /\ t # <<>> => (t[1] # " " /\ t[Len(t)] # " ")
    /\ \E i \in 0..Len(str) :
         /\ i + Len(t) <= Len(str)
         /\ \A k \in 1..Len(str) :
              IF k > i /\ k <= i + Len(t) THEN str[k] = t[k - i] ELSE str[k] = " "

\* C16: upload success returns to idle: when saveVideo resolves during
\* handleUpload, exactly one record is added to the store, with an id no
\* stored record has, the trimmed title, the category and the file of the
\* request; afterwards file is null and title empty, the category selection
\* is as it was, onUploadSuccess (loadVideos) was called once and isProcessing
\* is false.
C16_UploadSuccessReturnsToIdle ==
    [][(lastOp'.op = "saveSettle" /\ lastOp'.ok) =>
         LET u == settledUpload(uploads, lastOp'.arg)
             added == db' \ db
         IN /\ db \subseteq db' /\ Cardinality(added) = 1
            /\ \A r \in added :
                 /\ r.id \notin keys(db)
                 /\ isTrimOf(u.title, r.title)
                 /\ r.category = u.category
                 /\ r.blob = u.file /\ r.blob # NoFile
            /\ file' = NoFile /\ title' = <<>> /\ fileInputValue' = NoFile
            /\ category' = category
            /\ loads' = loads + 1 /\ isLoading'
            /\ isProcessing' = FALSE
            /\ \A o \in uploads' : o.n # u.n]_vars

\* C16 witness: the title ' N' was typed and 'Other' selected; the upload
\* succeeded with a thumbnail: the record holds 'N' and 'Other', the form is
\* empty with 'Other' still selected, loadVideos was called.
C16_Witness ==
    /\ lastOp = OpR("saveSettle", 1, TRUE)
    /\ \E r \in db : /\ r.id = 1 /\ r.title = <<"N">> /\ r.category = "Other"
                     /\ r.thumbnailUrl # "" /\ r.duration > 0
    /\ Cardinality(db) = 1
    /\ file = NoFile /\ title = <<>> /\ category = "Other"
    /\ ~isProcessing /\ loads = 1 /\ uploads = {}

(* -------------------- further claims about the store ------------------- *)

\* C17: listing order and shape: getAllVideos returns exactly one summary per
\* stored record, ordered by creation timestamp descending, each summary
\* carrying the record's id, title, category ('Other' for a record without
\* one), thumbnail, creation timestamp and duration, and never the blob.
C17_ListingOrderAndShape ==
    LET list == getAllVideos(db)
    IN /\ Len(list) = Cardinality(db)
       /\ \A r \in db : Cardinality({i \in 1..Len(list) : list[i].id = r.id}) = 1
       /\ \A i \in 1..Len(list), j \in 1..Len(list) :
            i < j => list[i].createdAt >= list[j].createdAt
       /\ \A i \in 1..Len(list) :
            /\ DOMAIN list[i] =
                 {"id", "title", "category", "thumbnailUrl", "createdAt", "duration"}
            /\ \E r \in db :
                 /\ r.id = list[i].id /\ r.title = list[i].title
                 /\ r.thumbnailUrl = list[i].thumbnailUrl
                 /\ r.createdAt = list[i].createdAt /\ r.duration = list[i].duration
                 /\ list[i].category =
                      IF r.category = NoCategory THEN "Other" ELSE r.category

\* C17 witness: the store holds three records, saved with the timestamps 1, 2
\* and 0 (the legacy record); the listing shows the one of timestamp 2 first
\* and the legacy record last.
C17_Witness ==
    /\ Cardinality(db) = 3
    /\ \E r \in db : r.id = 1 /\ r.createdAt = 1
    /\ \E r \in db : r.id = 2 /\ r.createdAt = 2
    /\ LegacyVideo \in db
    /\ getAllVideos(db)[1].id = 2
    /\ getAllVideos(db)[2].id = 1
    /\ getAllVideos(db)[3].id = MaxIds /\ getAllVideos(db)[3].category = "Other"

\* C18: stored records are immutable: a saveVideo that succeeds stores the
\* record under an id that was not in the store; from then until a deleteVideo
\* of that id succeeds, getVideoById(id) returns the same record; a saveVideo
\* whose id is in the store is rejected and leaves the store unchanged.
C18_StoredRecordsImmutable ==
    /\ [][\A id \in keys(db) :
            (lastOp' # OpR("deleteVideo", id, TRUE)) =>
                getVideoById(db', id) = getVideoById(db, id)]_vars
    /\ [][(lastOp'.op = "saveVideo" /\ lastOp'.arg \in keys(db)) =>
            (~lastOp'.ok /\ db' = db)]_vars
    /\ [][(lastOp'.op = "saveVideo" /\ lastOp'.ok) =>
            /\ lastOp'.arg \notin keys(db)
            /\ \E r \in StoreInputs :
                 /\ r.id = lastOp'.arg
                 /\ db' = db \cup {r}
                 /\ getVideoById(db', r.id) = r]_vars
    /\ [](\A a \in db, b \in db : a.id = b.id => a = b)

\* C18 witness: video 1 was saved as 'Botany' with timestamp 1; another
\* saveVideo with id 1 was rejected and the stored record is as it was.
C18_Witness ==
    /\ lastOp = OpR("saveVideo", 1, FALSE)
    /\ 1 \in keys(db)
    /\ getVideoById(db, 1).category = "Botany" /\ getVideoById(db, 1).createdAt = 1
    /\ Cardinality(db) = 2

\* C19: volume/mute mirroring: in every reachable player state, after any
\* sequence of slider changes and mute toggles, isMuted is true exactly when
\* volume is 0, the element's volume equals the volume state and the element's
\* muted flag equals isMuted.
C19_VolumeMuteMirrored ==
    /\ isMuted <=> (volume = 0)
    /\ elVolume = volume
    /\ elMuted = isMuted

\* C19 witness: the slider was dragged to 0, which mutes, and the mute button
\* then restored the volume 0.35 set before.
C19_Witness ==
    /\ lastOp = Op("toggleMute", 0)
    /\ volumeSet /\ prevVolumeRef = 7
    /\ volume = 7 /\ elVolume = 7 /\ ~isMuted /\ ~elMuted
    /\ isPlaying /\ timers # {}

\* C19 witness of the muted side: the slider was dragged to 0.
C19_WitnessSliderZero ==
    /\ lastOp = Op("volumeSliderOnChange", 0)
    /\ volume = 0 /\ elVolume = 0 /\ isMuted /\ elMuted /\ prevVolumeRef = 7

\* C20: toggleFullscreen requests fullscreen when the document has no
\* fullscreen element and exits otherwise, and right after every
\* toggleFullscreen the isFullscreen flag equals the browser's fullscreen
\* state, also when fullscreen had been left by a gesture of the browser that
\* left the flag stale.
C20_FullscreenFlagAfterToggle ==
    [][lastOp'.op = "toggleFullscreen" =>
         /\ fullscreenElement => ~fullscreenElement'
         /\ isFullscreen' = fullscreenElement']_vars

\* The part of C20 the code keeps: the flag is set from the browser's state
\* and not from the stale flag, and it is right whenever the browser grants
\* the request.
C20_FlagFollowsGrantedToggle ==
    [][(lastOp'.op = "toggleFullscreen" /\ lastOp'.ok) =>
         /\ fullscreenElement' = ~fullscreenElement
         /\ isFullscreen' = fullscreenElement']_vars

\* A toggle after fullscreen was left with the Escape key, which left the flag
\* stale: the request was granted and flag and browser agree again.
C20_StaleFlagToggled ==
    /\ lastOp = OpR("toggleFullscreen", 0, TRUE)
    /\ isFullscreen /\ fullscreenElement

(* ------------------------------ claim C21 ------------------------------ *)

\* C21: when the pointer leaves the player area while isPlaying is true,
\* showControls and showSpeedMenu are both false after that step; while
\* isPlaying is false, the step changes no player state.
C21_PointerLeave ==
    [][lastOp'.op = "onMouseLeave" =>
         IF isPlaying
         THEN ~showControls' /\ ~showSpeedMenu'
         ELSE UNCHANGED playerVars]_vars

\* The pointer has left a playing player whose controls are now hidden while
\* an inactivity timer is still pending.
C21_Witness ==
    /\ lastOp.op = "onMouseLeave"
    /\ isPlaying /\ ~showControls /\ ~showSpeedMenu
    /\ timers # {}

\* The pointer has left a paused player, whose speed menu stays open.
C21_WitnessPaused ==
    /\ lastOp.op = "onMouseLeave"
    /\ ~isPlaying /\ showControls /\ showSpeedMenu

(* ------------------------------ claim C22 ------------------------------ *)

\* C22: every pointer movement sets showControls to true and cancels the
\* pending inactivity timer before it starts a new one: at most one inactivity
\* timer is pending at any time, it is the one the most recent movement
\* started, and so a timer that expires is never one started by an earlier
\* movement than the most recent one.
C22_TimerReset ==
    /\ [](/\ Cardinality(timers) <= 1
          /\ \A t \in timers : t.id = controlsTimeoutRef)
    /\ [][lastOp'.op = "handleMouseMove" =>
            /\ showControls'
            /\ controlsTimeoutRef' # controlsTimeoutRef
            /\ \A t \in timers' : t \notin timers]_vars
    /\ [][lastOp'.op = "controlsTimeoutFire" =>
            lastOp'.arg = controlsTimeoutRef]_vars

\* A second movement came while the timer of the first was pending: only the
\* timer of the second is pending now.
C22_Witness ==
    /\ lastOp.op = "handleMouseMove"
    /\ controlsTimeoutRef = 2
    /\ timers = {[id |-> 2, playing |-> TRUE]}
    /\ showControls

\* The timer of a second movement has expired and hidden the controls.
C22_WitnessExpired ==
    /\ lastOp = Op("controlsTimeoutFire", 2)
    /\ ~showControls /\ timers = {}

(* ------------------------------ claim C23 ------------------------------ *)

\* C23: in every reachable player state playbackRate is one of 0.5, 1, 1.5,
\* 2, 2.5 and equals the element's playback rate; choosing a rate from the
\* menu sets both to that rate and sets showSpeedMenu to false, changing
\* nothing else.
C23_PlaybackRate ==
    /\ [](playbackRate \in RateMenu /\ playbackRate = elPlaybackRate)
    /\ [][lastOp'.op = "handleSpeedChange" =>
            /\ playbackRate' = lastOp'.arg /\ elPlaybackRate' = lastOp'.arg
            /\ ~showSpeedMenu'
            /\ UNCHANGED <<controlsTimeoutRef, timers, isPlaying, volume, isMuted,
                           showControls, prevVolumeRef, elVolume, elMuted, elPaused,
                           autoPlayPending, volumeSet, mediaVars>>]_vars

\* What holds of C23: the state's rate is always one of the menu, and a choice
\* from the menu sets the state and the element to it, closes the menu and
\* changes nothing else.
C23_SpeedChangeSetsBoth ==
    /\ [](playbackRate \in RateMenu)
    /\ [][lastOp'.op = "handleSpeedChange" =>
            /\ playbackRate' = lastOp'.arg /\ elPlaybackRate' = lastOp'.arg
            /\ ~showSpeedMenu'
            /\ UNCHANGED <<controlsTimeoutRef, timers, isPlaying, volume, isMuted,
                           showControls, prevVolumeRef, elVolume, elMuted, elPaused,
                           autoPlayPending, volumeSet, mediaVars>>]_vars

\* The rate was chosen and the video then replaced: the button shows the
\* chosen rate while the element plays at the default one.
C23_RateLostOnVideoChange ==
    /\ lastOp.op = "videoUrlChange"
    /\ playbackRate = 4 /\ elPlaybackRate = DefaultRate

(* ------------------------------ claim C24 ------------------------------ *)

\* What no notification of the element changes: volume, mute, rate,
\* fullscreen, the visibility of the controls and of the speed menu, the refs
\* and the pending timer, in the state and in the element.
notificationFrame ==
    <<volume, isMuted, prevVolumeRef, elVolume, elMuted, volumeSet,
      playbackRate, elPlaybackRate, isFullscreen, fullscreenElement,
      showControls, showSpeedMenu, controlsTimeoutRef, timers, autoPlayPending>>

\* C24: a timeupdate notification changes only progress, to the element's
\* current time; a loadedmetadata notification changes only duration, to the
\* duration the element has just learnt; an ended notification changes only
\* isPlaying, to false, the element having paused itself at the end; none of
\* them writes to the element or changes volume, mute, rate, fullscreen,
\* controls visibility or the speed menu.
C24_NotificationsFramed ==
    /\ [][lastOp'.op = "updateTime" =>
            /\ progress' = elCurrentTime
            /\ UNCHANGED <<notificationFrame, isPlaying, duration,
                           elPaused, elCurrentTime, elDuration>>]_vars
    /\ [][lastOp'.op = "updateDuration" =>
            /\ duration' = elDuration'
            /\ UNCHANGED <<notificationFrame, isPlaying, progress, elPaused>>]_vars
    /\ [][lastOp'.op = "onEnded" =>
            /\ ~isPlaying'
            /\ UNCHANGED <<notificationFrame, progress, duration,
                           elCurrentTime, elDuration>>]_vars

\* A timeupdate came in fullscreen at 2.5x with the speed menu open: the seek
\* bar shows the element's position.
C24_Witness ==
    /\ lastOp.op = "updateTime"
    /\ progress = MaxTime /\ elCurrentTime = MaxTime
    /\ playbackRate = 5 /\ isFullscreen /\ showSpeedMenu

\* The video ended while the state said playing and the menu was open.
C24_WitnessEnded ==
    /\ lastOp.op = "onEnded"
    /\ ~isPlaying /\ elPaused /\ showSpeedMenu /\ elCurrentTime = elDuration
    /\ elDuration = MaxTime

\* The metadata arrived after the user had moved the seek bar.
C24_WitnessMetadata ==
    /\ lastOp = Op("updateDuration", 1)
    /\ duration = 1 /\ progress = 2

(* ------------------------------ claim C25 ------------------------------ *)

\* The Player is shown only with viewState PLAYER and a selected video that is
\* a full record fetched from the store (one the store holds, or held until it
\* was deleted); the view is PLAYER exactly when a video is selected.
playerOwnsFetchedRecord ==
    /\ (viewState = "PLAYER") = (selectedVideo # NoSelection)
    /\ viewState \in {"HOME", "PLAYER"}
    /\ playerShown =>
         /\ selectedVideo.video # Undefined
         /\ \/ selectedVideo.video \in db
            \/ selectedVideo.video.id \in deletedIds
         /\ selectedVideo.fetch \in 1..selectCount

\* The only step that ends the showing of the Player is handleBackToHome,
\* which sets the view to Home and clears selectedVideo.
playerLeftOnlyByBack ==
    [][(playerShown /\ ~playerShown') =>
         /\ lastOp'.op = "handleBackToHome"
         /\ viewState' = "HOME" /\ selectedVideo' = NoSelection]_vars

\* C25 as stated: the above, and a selection whose record is absent or whose
\* fetch fails leaves the view in Home with no selected video.
C25_FailedSelectLeavesHome ==
    /\ []playerOwnsFetchedRecord
    /\ playerLeftOnlyByBack
    /\ [][(lastOp'.op = "selectSettle" /\ ~lastOp'.ok) =>
            viewState' = "HOME" /\ selectedVideo' = NoSelection]_vars

\* C25, amended: the above, and a selection whose record is absent or whose
\* fetch fails changes neither the view nor the selected video, so that it
\* leaves the view in Home with no selected video unless another selection
\* has opened the Player in the meantime.
C25_PlayerViewOwnership ==
    /\ []playerOwnsFetchedRecord
    /\ playerLeftOnlyByBack
    /\ [][(lastOp'.op = "selectSettle" /\ ~lastOp'.ok) =>
            UNCHANGED <<viewState, selectedVideo, videoUrl, urls>>]_vars

\* A card still on display was clicked after its record had been deleted: the
\* fetch found nothing and the view is Home with no selected video.
C25_Witness ==
    /\ lastOp.op = "selectSettle" /\ ~lastOp.ok
    /\ lastOp.arg \in deletedIds
    /\ viewState = "HOME" /\ selectedVideo = NoSelection

\* Two cards were clicked in succession; the first selection opened the
\* Player and the second failed, with the Player still shown.
C25_WitnessPlayerKept ==
    /\ lastOp.op = "selectSettle" /\ ~lastOp.ok
    /\ playerShown /\ selects = {}

(* ------------------------------ claim C26 ------------------------------ *)

\* C26: submitting a password other than 'admin' raises the alert and leaves
\* isAuthenticated false, the admin panel closed, the password prompt open
\* and the typed password in place (and changes nothing else); submitting
\* 'admin' sets isAuthenticated, closes the prompt, opens the admin panel and
\* clears the password input.  The step's ok flag is false exactly when the
\* alert is raised.
C26_PasswordSubmit ==
    [][lastOp'.op = "handlePasswordSubmit" =>
         IF passwordInput = "admin"
         THEN /\ lastOp'.ok
              /\ isAuthenticated' /\ ~showPasswordPrompt' /\ isAdminOpen'
              /\ passwordInput' = ""
         ELSE /\ ~lastOp'.ok
              /\ ~isAuthenticated' /\ ~isAdminOpen' /\ showPasswordPrompt'
              /\ passwordInput' = passwordInput
              /\ UNCHANGED <<appVars, playerVars, storeVars, adminVars>>]_vars

\* 'Admin' was submitted: the alert was raised, the prompt is open with the
\* typed password, and nobody is authenticated.
C26_Witness ==
    /\ lastOp = OpR("handlePasswordSubmit", 0, FALSE)
    /\ passwordInput = "Admin"
    /\ showPasswordPrompt /\ ~isAuthenticated /\ ~isAdminOpen

\* 'admin' was submitted.
C26_WitnessAccepted ==
    /\ lastOp = OpR("handlePasswordSubmit", 0, TRUE)
    /\ passwordInput = "" /\ ~showPasswordPrompt /\ isAuthenticated /\ isAdminOpen

(* ------------------------------ claim C27 ------------------------------ *)

\* Two letters are the same up to case.
sameLetter(a, b) == a = b \/ {a, b} \in {{"a", "A"}, {"b", "B"}}

\* The title contains the query case-insensitively.
containsIgnoringCase(str, query) ==
    \E k \in 0..(Len(str) - Len(query)) :
        \A i \in 1..Len(query) : sameLetter(str[k + i], query[i])

\* The position of a summary in the listing.
listingIndex(v) == CHOOSE j \in 1..Len(videos) : videos[j].id = v.id

\* The list holds exactly the summaries of the listing whose title contains
\* the query case-insensitively, each once and in listing order.
isMatchListing(list, query) ==
    /\ \A i \in 1..Len(list) :
          /\ \E j \in 1..Len(videos) : videos[j] = list[i]
          /\ containsIgnoringCase(list[i].title, query)
    /\ \A j \in 1..Len(videos) :
          containsIgnoringCase(videos[j].title, query) =>
              \E i \in 1..Len(list) : list[i] = videos[j]
    /\ \A i1, i2 \in 1..Len(list) :
          i1 < i2 => listingIndex(list[i1]) < listingIndex(list[i2])

\* C27: once the list is loaded, with a non-empty query the gallery shows
\* exactly the summaries whose title contains the query case-insensitively,
\* in listing order; when no title matches, the gallery is in the empty state
\* ('No videos found.'), which is no error state; with an empty query the
\* categorized view is shown instead.
C27_Search ==
    (~playerShown /\ ~isLoading) =>
        IF searchQuery # <<>>
        THEN /\ galleryView.kind \in {"grid", "empty"}
             /\ isMatchListing(galleryView.videos, searchQuery)
             /\ (galleryView.kind = "empty") =
                  (\A j \in 1..Len(videos) :
                      ~containsIgnoringCase(videos[j].title, searchQuery))
        ELSE galleryView.kind = "categories"

\* 'b' is searched among two videos, of which the newer, titled 'aB', matches
\* through its capital letter and the older does not.
C27_Witness ==
    /\ lastOp.op = "searchOnChange"
    /\ searchQuery = <<"b">>
    /\ Len(videos) = 2
    /\ videos[1].title = <<"a", "B">> /\ videos[2].title = <<"a">>
    /\ galleryView.kind = "grid" /\ galleryView.videos = <<videos[1]>>

\* Both of two videos match 'A' and are shown in listing order.
C27_WitnessOrder ==
    /\ searchQuery = <<"A">>
    /\ Len(videos) = 2 /\ videos[1].id = 2 /\ videos[2].id = 1
    /\ galleryView.videos = videos

\* No title of a store that is not empty matches the query.
C27_WitnessEmpty ==
    /\ searchQuery = <<"b", "a">>
    /\ Len(videos) = 2 /\ videos[1].title = <<"a", "B">>
    /\ galleryView.kind = "empty"

\* The query was cleared again.
C27_WitnessCleared ==
    /\ lastOp = Op("searchOnChange", 0)
    /\ searchQuery = <<>> /\ Len(videos) = 2 /\ galleryView.kind = "categories"

(* ------------------------------ claim C28 ------------------------------ *)

\* The number of calls of an operation among those a step issued.
callsOf(name, calls) == Cardinality({i \in 1..Len(calls) : calls[i] = name})

\* The upload request numbered n is in flight.
uploadInFlight(us, n) == \E u \in us : u.n = n

\* C28: within one upload request generateThumbnail is started at most once
\* and saveVideo is called at most once, and within one file selection
\* generateCleanTitle is called exactly once; a failure of any of them never
\* causes the same operation to be issued again without a new user action.
\* Step by step: a file selection calls generateCleanTitle once and only it
\* does; an upload request starts generateThumbnail once and only it does;
\* saveVideo is called only by the step in which the request's thumbnail
\* settles, once; the request then never returns to the thumbnail, and once it
\* has ended it never comes back.
C28_NoAutomaticRetry ==
    /\ [][/\ callsOf("generateCleanTitle", issued') =
               (IF lastOp'.op = "handleFileChange" THEN 1 ELSE 0)
          /\ callsOf("generateThumbnail", issued') =
               (IF lastOp'.op = "handleUpload" THEN 1 ELSE 0)
          /\ callsOf("saveVideo", issued') =
               (IF lastOp'.op = "thumbnailSettle" THEN 1 ELSE 0)]_vars
    /\ [][\A v \in uploads' :
            \/ /\ ~uploadInFlight(uploads, v.n)
               /\ lastOp' = Op("handleUpload", v.n)
               /\ v.n = uploadCount + 1
               /\ v.phase = "generateThumbnail"
            \/ \E u \in uploads :
                  /\ u.n = v.n
                  /\ u.phase = "saveVideo" => v.phase = "saveVideo"
                  /\ u.phase # v.phase => lastOp'.op = "thumbnailSettle" /\ lastOp'.arg = v.n]_vars
    /\ [][lastOp'.op = "saveSettle" => ~uploadInFlight(uploads', lastOp'.arg)]_vars
    /\ [][lastOp'.op = "titleSuggestionSettle" =>
            suggestions' # suggestions /\ suggestions' \subseteq suggestions]_vars
    /\ [](\A u, v \in uploads : u.n = v.n => u = v)

\* saveVideo was rejected: the request has ended, the error is shown, and
\* nothing was called again.
C28_Witness ==
    /\ lastOp = OpR("saveSettle", 1, FALSE)
    /\ uploads = {} /\ error = UploadError /\ issued = <<>>
    /\ ~isProcessing /\ db = {}

\* generateThumbnail failed: the request went on to saveVideo without a
\* second attempt.
C28_WitnessThumbnail ==
    /\ lastOp = OpR("thumbnailSettle", 1, FALSE)
    /\ issued = <<"saveVideo">>
    /\ \E u \in uploads : u.n = 1 /\ u.phase = "saveVideo" /\ u.thumbnailFailed

\* The title service threw: the fallback title is in the form and no call is
\* in flight.
C28_WitnessTitle ==
    /\ ai
    /\ lastOp = Op("titleSuggestionSettle", 1)
    /\ title = fallbackTitle(fileNames[1])
    /\ suggestions = {} /\ issued = <<>>

(* ------------------------------ claim C29 ------------------------------ *)

\* The titles generateCleanTitle can suggest for a file.
suggestionsFor(f) ==
    {generateCleanTitle(fileNames[f], ai, outcome).value : outcome \in ServiceOutcomes}

\* C29: once no suggestion is pending, the title in the form is empty when no
\* file is selected and otherwise a suggestion for the selected file or a
\* user's edit; a late suggestion, one for a file that has been removed or
\* replaced when it arrives, never sets the title.
C29_TitleMatchesSelectedFile ==
    /\ [](suggestions = {} =>
            IF file = NoFile THEN title = <<>>
            ELSE title \in suggestionsFor(file) \cup TitleEdits)
    /\ [][(lastOp'.op = "titleSuggestionSettle" /\ lastOp'.arg # file) =>
            title' = title]_vars

\* What happens instead: the file was removed while its suggestion was
\* pending, and the suggestion then filled the title of a form that has no
\* file.
C29_LateSuggestionSetsTitle ==
    /\ lastOp.op = "titleSuggestionSettle"
    /\ suggestions = {} /\ file = NoFile
    /\ title # <<>>

(* ------------------------------ claim C30 ------------------------------ *)

\* C30: in every reachable state of the admin panel, isProcessing is true
\* whenever a title suggestion or an upload started by the panel has not yet
\* completed.
C30_ProcessingCoversInFlightWork ==
    (suggestions # {} \/ uploads # {}) => isProcessing

\* What happens instead: an upload is still in flight while isProcessing is
\* false, a file selection made meanwhile having finished first.
C30_UploadInFlightUnmarked ==
    /\ uploads # {} /\ suggestions = {}
    /\ ~isProcessing

(* ----------------------------- claim C31 ------------------------------ *)

\* The App's steps that start, read for and settle loadVideos, when no
\* getAllVideos call rejects: signing in as admin, the deletions from the
\* gallery and from the admin panel, and the loads they start.
LoadsNext ==
    \/ loadSettle(TRUE)
    \/ getAllVideosRead
    \/ handleAdminAccess
    \/ \E p \in PasswordEdits : passwordOnChange(p)
    \/ handlePasswordSubmit
    \/ adminClose
    \/ \E id \in VideoIds, confirmed \in BOOLEAN : handleDeleteClick(id, confirmed)
    \/ \E id \in VideoIds, confirmed \in BOOLEAN : handleDelete(id, confirmed)
    \/ \E ok \in BOOLEAN : deleteSettle(ok)

SpecLoads == AppSpecInit /\ [][LoadsNext]_vars

\* No loadVideos, handleUpload or handleDeleteVideo call is in flight.
nothingPending == loads = 0 /\ deletes = <<>> /\ uploads = {}

\* C31: once no load, upload or deletion is pending, the displayed video list
\* equals the store's current summaries (so it shows no deleted id and every
\* stored id), whatever the order in which the loadVideos calls completed.
C31_ListConvergesToStore == nothingPending => videos = getAllVideos(db)

(* ----------------------------- claim C32 ------------------------------ *)

\* C32: the record handleUpload passes to saveVideo has a non-empty title,
\* for every file and every title text the form can hold, titles made only of
\* whitespace included.
C32_SavedTitleNonEmpty ==
    \A u \in uploads : u.phase = "saveVideo" => u.video.title # <<>>

(* ----------------------------- claim C33 ------------------------------ *)

\* C33: after every player operation and element notification (autoplay
\* start, togglePlay, ended, a refused play request), isPlaying is true
\* exactly when the underlying element is playing.
C33_IsPlayingMirrorsElement == isPlaying <=> ~elPaused

(* ----------------------------- claim C34 ------------------------------ *)

\* C34: in every reachable player state the speed menu is open only if the
\* controls are shown, under any sequence of pointer moves, pointer leaves,
\* timer expiries, play toggles and speed-menu toggles.
C34_SpeedMenuImpliesControls == showSpeedMenu => showControls

(* ------------- AdminPanel.generateThumbnail, event by event ------------- *)

\* Math.min(1, video.duration / 2), in half seconds, for a duration in
\* seconds.
thumbnailSeekTime(d) == IF d < 2 THEN d ELSE 2

\* resolve(value) and reject(reason) of the promise: the first call settles
\* it, and a later call changes nothing.
settle(promise, outcome) == IF promise.state = "pending" THEN outcome ELSE promise

resolved(url, d, event) ==
    [state |-> "resolved", url |-> url, duration |-> d, by |-> event]

rejected(event) == [state |-> "rejected", url |-> "", duration |-> 0, by |-> event]

\* clearTimeout(timeout) in onseeked and onerror (a plausible slip leaves
\* the timeout set).
clearedTimeout_skipped(armed) == armed

clearedTimeout(armed) == FALSE

\* cleanup(): URL.revokeObjectURL(video.src); video.remove() does nothing to
\* an element that was never inserted.
cleanup(live) == FALSE

occurred(event) == \E i \in 1..Len(thumbnailEvents) : thumbnailEvents[i] = event

\* generateThumbnail(file) up to the return of the promise: the element is
\* created with the object URL as its src and the timeout is set.
generateThumbnailCalled(f) ==
    /\ thumbnailFile = NoFile
    /\ thumbnailFile' = f
    /\ thumbnailPromise' = Pending
    /\ objectUrlLive' = TRUE
    /\ timeoutArmed' = TRUE
    /\ lastOp' = Op("generateThumbnail", f)
    /\ UNCHANGED <<videoDuration, videoCurrentTime, thumbnailEvents>>
    /\ UNCHANGED <<playerVars, storeVars, ai, fnVars, adminVars, appVars>>

\* video.onloadedmetadata: the seek to 1 s, or to the middle of a shorter
\* video.
onloadedmetadata(d) ==
    /\ thumbnailFile # NoFile
    /\ ~occurred("loadedmetadata")
    /\ videoDuration' = d
    /\ videoCurrentTime' = thumbnailSeekTime(d)
    /\ thumbnailEvents' = Append(thumbnailEvents, "loadedmetadata")
    /\ lastOp' = Op("onloadedmetadata", d)
    /\ UNCHANGED <<thumbnailFile, thumbnailPromise, objectUrlLive, timeoutArmed>>
    /\ UNCHANGED <<playerVars, storeVars, ai, fnVars, adminVars, appVars>>

\* video.onseeked: with a 2d context the frame is drawn and the promise
\* resolved; without one the throw is caught and the promise rejected. Both
\* paths clear the timeout and clean up first.
onseeked(outcome) ==
    /\ occurred("loadedmetadata")
    /\ ~occurred("seeked") /\ ~occurred("noContext")
    /\ timeoutArmed' = clearedTimeout(timeoutArmed)
    /\ objectUrlLive' = cleanup(objectUrlLive)
    /\ thumbnailPromise' =
         settle(thumbnailPromise,
                IF outcome = "seeked"
                THEN resolved("data:image/jpeg", videoDuration, outcome)
                ELSE rejected(outcome))
    /\ thumbnailEvents' = Append(thumbnailEvents, outcome)
    /\ lastOp' = OpR("onseeked", 0, outcome = "seeked")
    /\ UNCHANGED <<thumbnailFile, videoDuration, videoCurrentTime>>
    /\ UNCHANGED <<playerVars, storeVars, ai, fnVars, adminVars, appVars>>

\* video.onerror
onerror ==
    /\ thumbnailFile # NoFile
    /\ ~occurred("error")
    /\ timeoutArmed' = clearedTimeout(timeoutArmed)
    /\ objectUrlLive' = cleanup(objectUrlLive)
    /\ thumbnailPromise' = settle(thumbnailPromise, rejected("error"))
    /\ thumbnailEvents' = Append(thumbnailEvents, "error")
    /\ lastOp' = Op("onerror", 0)
    /\ UNCHANGED <<thumbnailFile, videoDuration, videoCurrentTime>>
    /\ UNCHANGED <<playerVars, storeVars, ai, fnVars, adminVars, appVars>>

\* The callback of setTimeout(..., 10000), which runs unless the timeout was
\* cleared.
thumbnailTimeout ==
    /\ timeoutArmed
    /\ timeoutArmed' = FALSE
    /\ objectUrlLive' = cleanup(objectUrlLive)
    /\ thumbnailPromise' = settle(thumbnailPromise, rejected("timeout"))
    /\ thumbnailEvents' = Append(thumbnailEvents, "timeout")
    /\ lastOp' = Op("thumbnailTimeout", 0)
    /\ UNCHANGED <<thumbnailFile, videoDuration, videoCurrentTime>>
    /\ UNCHANGED <<playerVars, storeVars, ai, fnVars, adminVars, appVars>>

\* The element's handlers stay assigned after the promise has settled, so
\* its events are delivered in any order, each once.
ThumbNext ==
    \/ \E f \in Files : generateThumbnailCalled(f)
    \/ \E d \in 0..MaxTime : onloadedmetadata(d)
    \/ \E outcome \in {"seeked", "noContext"} : onseeked(outcome)
    \/ onerror
    \/ thumbnailTimeout

ThumbSpecInit == StoreSpecInit /\ db = {}

\* A timeout that is set and not cleared does fire.
SpecThumb == ThumbSpecInit /\ [][ThumbNext]_vars /\ WF_vars(thumbnailTimeout)

(* ----------------------------- claim C35 ------------------------------ *)

\* The first of the deciding events (seeked with or without a context, error,
\* timeout) among those that have occurred, "" when there is none.
firstDeciding(events) ==
    LET at == {i \in 1..Len(events) : events[i] \in ThumbnailOutcomes}
    IN  IF at = {} THEN "" ELSE events[Min(at)]

thumbnailSettled == thumbnailPromise.state # "pending"

\* The promise carries the outcome of the first deciding event, and is
\* pending while there was none.
settledByFirst ==
    /\ thumbnailPromise.by = firstDeciding(thumbnailEvents)
    /\ thumbnailSettled <=> firstDeciding(thumbnailEvents) # ""
    /\ thumbnailPromise.state = "resolved" <=> thumbnailPromise.by = "seeked"
    /\ thumbnailPromise.state = "resolved" =>
         /\ thumbnailPromise.url = "data:image/jpeg"
         /\ thumbnailPromise.duration = videoDuration

\* C35: under any ordering of the seeked event, the error event and the
\* 10-second timeout, generateThumbnail yields exactly one outcome, that of
\* the first of them to occur (a call does settle, and a settled promise never
\* changes); its object URL is revoked on every outcome; and the timeout is
\* cancelled, so never fires, whenever seeked or error decided the outcome.
C35_ThumbnailSettlesOnce ==
    /\ [](settledByFirst)
    /\ [][thumbnailSettled => thumbnailPromise' = thumbnailPromise]_vars
    /\ [](thumbnailSettled => ~objectUrlLive)
    /\ [](thumbnailSettled /\ thumbnailPromise.by # "timeout" =>
            ~timeoutArmed /\ ~occurred("timeout"))
    /\ (thumbnailFile # NoFile ~> thumbnailSettled)

\* The error event decided the outcome and the seeked event came after it.
C35_Witness ==
    /\ thumbnailPromise = rejected("error")
    /\ occurred("seeked") /\ ~occurred("timeout")
    /\ ~objectUrlLive /\ ~timeoutArmed

=============================================================================
